---- MODULE Spec2Model ----
(***************************************************************************)
(* A model of the esedb read-only decoder (RavuAlHemio/esedb): the header  *)
(* decoder, the page layer, the tree walker and the row decoder.           *)
(*                                                                         *)
(* Unsigned machine integers wider than TLC's integers (u64, and u32 with  *)
(* the top bit set) are kept as little-endian byte sequences, which is     *)
(* also the form they have in the file; arithmetic on them wraps at their  *)
(* width exactly as the machine's does.                                    *)
(***************************************************************************)
EXTENDS Integers, Sequences, FiniteSets, TLC

VARIABLES
    overflow_checks,  \* build profile: TRUE = arithmetic overflow panics, FALSE = wraps
    file,             \* the stream being decoded: [len, bytes]
    header,           \* the database header the page layer works with
    tree,             \* the pages of a B-tree as the page layer decodes them
    call,             \* the API call made last, with its arguments
    ret               \* what that call returned

vars == <<overflow_checks, file, header, tree, call, ret>>

(***************************************************************************)
(* Little-endian byte sequences as unsigned integers.                      *)
(***************************************************************************)
Byte == 0..255

RECURSIVE NatToLE(_, _)
\* n.to_le_bytes() for an unsigned type of w bytes
NatToLE(n, w) ==
    IF w = 0 THEN <<>> ELSE <<n % 256>> \o NatToLE(n \div 256, w - 1)

RECURSIVE LEToNat(_)
\* uN::from_le_bytes(b); the model applies it only to values below 2^31
LEToNat(b) ==
    IF b = <<>> THEN 0 ELSE b[1] + 256 * LEToNat(Tail(b))

ZeroExt(b, w) == b \o [i \in 1..(w - Len(b)) |-> 0]

IsZeroLE(b) == \A i \in 1..Len(b) : b[i] = 0

RECURSIVE AddCarry(_, _, _)
AddCarry(a, b, c) ==
    IF a = <<>> THEN <<c>>
    ELSE LET s == a[1] + b[1] + c
         IN  <<s % 256>> \o AddCarry(Tail(a), Tail(b), s \div 256)

\* a + b for two values of the same width; the result is one byte longer (the carry)
AddLE(a, b) == AddCarry(a, b, 0)

RECURSIVE ColSum(_, _, _, _)
ColSum(a, b, k, i) ==
    IF i > Len(a) THEN 0
    ELSE (IF (k + 1 - i) \in 1..Len(b) THEN a[i] * b[k + 1 - i] ELSE 0)
         + ColSum(a, b, k, i + 1)

RECURSIVE MulCarry(_, _, _, _)
MulCarry(a, b, k, c) ==
    IF k > Len(a) + Len(b) THEN <<>>
    ELSE LET s == ColSum(a, b, k, 1) + c
         IN  <<s % 256>> \o MulCarry(a, b, k + 1, s \div 256)

\* the full product a * b, Len(a) + Len(b) bytes wide
MulLE(a, b) == MulCarry(a, b, 1, 0)

RECURSIVE LtLE(_, _)
\* a < b for two values of the same width
LtLE(a, b) ==
    IF a = <<>> THEN FALSE
    ELSE LET n == Len(a)
         IN  IF a[n] # b[n] THEN a[n] < b[n]
             ELSE LtLE(SubSeq(a, 1, n - 1), SubSeq(b, 1, n - 1))

RECURSIVE SubBorrow(_, _, _)
SubBorrow(a, b, c) ==
    IF a = <<>> THEN <<c>>
    ELSE LET d == a[1] - b[1] - c
         IN  <<(d + 256) % 256>> \o SubBorrow(Tail(a), Tail(b), IF d < 0 THEN 1 ELSE 0)

\* a - b for two values of the same width; the result is one byte longer (the borrow)
SubLE(a, b) == SubBorrow(a, b, 0)

U64 == [1..8 -> Byte]
U64Of(n) == NatToLE(n, 8)

RECURSIVE BitAnd(_, _)
\* a & b on naturals
BitAnd(a, b) ==
    IF a = 0 \/ b = 0 THEN 0
    ELSE (a % 2) * (b % 2) + 2 * BitAnd(a \div 2, b \div 2)

\* (a >> k) on naturals
Shr(a, k) == a \div (2 ^ k)

\* bitflags contains(): every bit of mask is set in the little-endian value b
ContainsBits(b, mask) ==
    \A i \in 1..Len(b) : BitAnd(b[i], NatToLE(mask, Len(b))[i]) = NatToLE(mask, Len(b))[i]

(***************************************************************************)
(* Results.                                                                *)
(***************************************************************************)
Ok(v) == [kind |-> "ok", val |-> v]
Err(e) == [kind |-> "err", err |-> e]
Panic == [kind |-> "panic"]
NoRet == [kind |-> "none"]

IsOk(r) == r.kind = "ok"
IsErr(r, e) == r.kind = "err" /\ r.err = e

(***************************************************************************)
(* page.rs: page addressing.                                               *)
(***************************************************************************)
\* page_number + 1 and page_index * u64::from(page_size) are plain u64
\* arithmetic: on overflow they panic in a build with overflow checks and
\* wrap in one without.
page_byte_offset_wrapping(page_size, page_number) ==
    IF IsZeroLE(page_number) THEN Err("Page0")
    ELSE LET page_index_wide  == AddLE(page_number, U64Of(1))
             page_index       == SubSeq(page_index_wide, 1, 8)
             byte_offset_wide == MulLE(page_index, U64Of(page_size))
             byte_offset      == SubSeq(byte_offset_wide, 1, 8)
             overflowed       == \/ page_index_wide[9] # 0
                                 \/ ~IsZeroLE(SubSeq(byte_offset_wide, 9, 16))
         IN  IF overflowed /\ overflow_checks THEN Panic ELSE Ok(byte_offset)

page_byte_offset(page_size, page_number) ==
    page_byte_offset_wrapping(page_size, page_number)

(***************************************************************************)
(* The stream: a length and the bytes that are not zero.                   *)
(***************************************************************************)
PutLE(off, b) == [p \in off..(off + Len(b) - 1) |-> b[p - off + 1]]

ByteAt(f, pos) == IF pos \in DOMAIN f.bytes THEN f.bytes[pos] ELSE 0

\* a position the model's streams can hold (they are shorter than 2^24 bytes)
FitsPos(pos) == IsZeroLE(SubSeq(pos, 4, 8))

\* seek(SeekFrom::Start(pos)) followed by read_exact of n bytes
read_exact(f, pos, n) ==
    IF ~FitsPos(pos) THEN Err("Io")
    ELSE LET p == LEToNat(pos)
         IN  IF p + n > f.len THEN Err("Io")
             ELSE Ok([i \in 1..n |-> ByteAt(f, p + i - 1)])

\* u64 addition and subtraction as the build does them
u64_add(a, b) ==
    LET w == AddLE(a, b)
    IN  IF w[9] # 0 /\ overflow_checks THEN Panic ELSE Ok(SubSeq(w, 1, 8))

u64_sub(a, b) ==
    LET w == SubLE(a, b)
    IN  IF w[9] # 0 /\ overflow_checks THEN Panic ELSE Ok(SubSeq(w, 1, 8))

(***************************************************************************)
(* header.rs: the header decoder.                                          *)
(***************************************************************************)
\* 0x89ABCDEF, little-endian
HEADER_SIGNATURE == <<239, 205, 171, 137>>

\* size_of::<Header>(): the 668 bytes of the on-disk layout
HEADER_SIZE == 668

RECURSIVE BitXor(_, _)
\* a ^ b on naturals
BitXor(a, b) ==
    IF a = 0 THEN b
    ELSE IF b = 0 THEN a
    ELSE ((a + b) % 2) + 2 * BitXor(a \div 2, b \div 2)

XorWord(v, w) == [i \in 1..4 |-> BitXor(v[i], w[i])]

\* lines 183-188: the XOR of the 4-byte chunks of header_bytes from chunk
\* number first on (chunks count from 0); bit k of byte j of the result is
\* the parity of the chunks that have this bit set
xor_chunks(header_bytes, first) ==
    LET chunks == first..((Len(header_bytes) \div 4) - 1)
        par(j, k) == Cardinality({w \in chunks :
                         (header_bytes[4 * w + j] \div (2 ^ k)) % 2 = 1}) % 2
    IN  [j \in 1..4 |-> par(j, 0) + 2 * par(j, 1) + 4 * par(j, 2) + 8 * par(j, 3)
                        + 16 * par(j, 4) + 32 * par(j, 5) + 64 * par(j, 6)
                        + 128 * par(j, 7)]

\* header_bytes[12..].chunks(4), XORed
calculated_checksum_skipping_first_word(header_bytes) == xor_chunks(header_bytes, 3)

\* lines 183-188: header_bytes[8..].chunks(4), XORed
calculated_checksum(header_bytes) == xor_chunks(header_bytes, 2)

Header_read(b) ==
    [checksum        |-> SubSeq(b, 1, 4),
     signature       |-> SubSeq(b, 5, 8),
     version         |-> SubSeq(b, 9, 12),
     file_type       |-> SubSeq(b, 13, 16),
     database_time   |-> SubSeq(b, 17, 24),
     state           |-> SubSeq(b, 53, 56),
     format_revision |-> SubSeq(b, 233, 236),
     page_size       |-> LEToNat(SubSeq(b, 237, 240)),
     unknown_flags   |-> SubSeq(b, 665, 668)]

\* lines 162-176: the checks on the first HEADER_SIZE bytes, in their order
header_prefix_checks_size_before_signature(b) ==
    LET signature     == SubSeq(b, 5, 8)
        page_size_u32 == SubSeq(b, 237, 240)
    IN  IF LtLE(page_size_u32, NatToLE(HEADER_SIZE, 4)) THEN Err("HeaderLongerThanPage")
        ELSE IF page_size_u32[1] % 4 # 0 THEN Err("PageSizeNotDivisibleBy4")
        ELSE IF signature # HEADER_SIGNATURE THEN Err("WrongHeaderSignature")
        ELSE Ok(page_size_u32)

header_prefix_checks(b) ==
    LET signature     == SubSeq(b, 5, 8)
        page_size_u32 == SubSeq(b, 237, 240)
    IN  IF signature # HEADER_SIGNATURE THEN Err("WrongHeaderSignature")
        ELSE IF LtLE(page_size_u32, NatToLE(HEADER_SIZE, 4)) THEN Err("HeaderLongerThanPage")
        ELSE IF page_size_u32[1] % 4 # 0 THEN Err("PageSizeNotDivisibleBy4")
        ELSE Ok(page_size_u32)

\* read_header on a stream positioned at its start
read_header(f) ==
    LET first == read_exact(f, U64Of(0), HEADER_SIZE)
    IN  IF ~IsOk(first) THEN first
        ELSE
        LET checks == header_prefix_checks(first.val)
        IN  IF ~IsOk(checks) THEN checks
            ELSE
            \* header_bytes.resize(page_size, 0); read_exact of the rest
            LET page == IF ~IsZeroLE(SubSeq(checks.val, 4, 4)) THEN Err("Io")
                        ELSE read_exact(f, U64Of(0), LEToNat(checks.val))
            IN  IF ~IsOk(page) THEN page
                ELSE
                LET header_bytes  == page.val
                    file_checksum == SubSeq(header_bytes, 1, 4)
                IN  IF file_checksum # calculated_checksum(header_bytes)
                    THEN Err("WrongHeaderChecksum")
                    ELSE Ok(Header_read(header_bytes))

(***************************************************************************)
(* page.rs: page headers.                                                  *)
(***************************************************************************)
MAX_SIZE_SMALL_PAGE == 8192

\* PageFlags
ROOT_PAGE == 1
LEAF_PAGE == 2
BRANCH_PAGE == 4
SPACE_TREE_PAGE == 32
INDEX_PAGE == 64
NEW_CHECKSUM_FORMAT == 8192

\* Header::version_and_revision(): (version << 32) | format_revision, as a u64
version_and_revision(h) == h.format_revision \o h.version

V3_SINCE_one_revision_later == <<18, 0, 0, 0, 32, 6, 0, 0>>

\* 0x0000_0620_0000_0011
V3_SINCE == <<17, 0, 0, 0, 32, 6, 0, 0>>

\* ExtendedPageHeaderOrPageNumber::page_number()
ext_page_number(eh) ==
    IF eh.v = "ExtendedPageHeader" THEN eh.page_number ELSE eh.pn

\* ExtendedPageHeaderOrPageNumber::page_header_size_bytes()
page_header_size_bytes(eh) ==
    IF eh.v = "ExtendedPageHeader" THEN 80 ELSE 40

\* PageHeader::page_number(), a u64
ph_page_number(ph) ==
    LET c == ph.checksum_and_page_number
    IN  IF c.v = "V1" THEN ZeroExt(c.page_number, 8)
        ELSE ext_page_number(c.extended_header)

\* PageHeader::size_bytes()
ph_size_bytes(ph) ==
    LET c == ph.checksum_and_page_number
    IN  IF c.v = "V1" THEN 40 ELSE page_header_size_bytes(c.extended_header)

read_extended_header(f, hdr, pos, page_number) ==
    IF hdr.page_size <= MAX_SIZE_SMALL_PAGE
    THEN Ok([v |-> "PageNumber", pn |-> page_number])
    ELSE LET r == read_exact(f, pos, 40)
         IN  IF ~IsOk(r) THEN r
             ELSE Ok([v |-> "ExtendedPageHeader",
                      extended_checksum_1 |-> SubSeq(r.val, 1, 8),
                      extended_checksum_2 |-> SubSeq(r.val, 9, 16),
                      extended_checksum_3 |-> SubSeq(r.val, 17, 24),
                      page_number |-> SubSeq(r.val, 25, 32),
                      unknown |-> SubSeq(r.val, 33, 40)])

read_page_header(f, hdr, page_number) ==
    LET byte_offset == page_byte_offset(hdr.page_size, page_number)
    IN  IF ~IsOk(byte_offset) THEN byte_offset
        ELSE
        LET raw == read_exact(f, byte_offset.val, 40)
        IN  IF ~IsOk(raw) THEN raw
            ELSE
            LET b     == raw.val
                value == SubSeq(b, 1, 8)
                flags == SubSeq(b, 37, 40)
                eh    == read_extended_header(f, hdr,
                             SubSeq(AddLE(byte_offset.val, U64Of(40)), 1, 8), page_number)
                cpn   == IF ContainsBits(flags, NEW_CHECKSUM_FORMAT)
                         THEN IF ~IsOk(eh) THEN eh
                              ELSE IF ~LtLE(version_and_revision(hdr), V3_SINCE)
                              THEN Ok([v |-> "V3", checksum |-> value,
                                       extended_header |-> eh.val])
                              ELSE Ok([v |-> "V2", xor_checksum |-> SubSeq(value, 1, 4),
                                       ecc_checksum |-> SubSeq(value, 5, 8),
                                       extended_header |-> eh.val])
                         ELSE Ok([v |-> "V1", xor_checksum |-> SubSeq(value, 1, 4),
                                  page_number |-> SubSeq(value, 5, 8)])
            IN  IF ~IsOk(cpn) THEN cpn
                ELSE Ok([checksum_and_page_number |-> cpn.val,
                         last_modification_time |-> SubSeq(b, 9, 16),
                         prev_page_num |-> SubSeq(b, 17, 20),
                         next_page_num |-> SubSeq(b, 21, 24),
                         father_data_page_oid |-> SubSeq(b, 25, 28),
                         available_data_size |-> LEToNat(SubSeq(b, 29, 30)),
                         available_uncommitted_data_size |-> LEToNat(SubSeq(b, 31, 32)),
                         first_available_data_offset |-> LEToNat(SubSeq(b, 33, 34)),
                         first_available_page_tag |-> LEToNat(SubSeq(b, 35, 36)),
                         flags |-> flags])

(***************************************************************************)
(* page.rs: page tags.                                                     *)
(***************************************************************************)
Reverse(q) == [i \in 1..Len(q) |-> q[Len(q) + 1 - i]]

\* PageTagSmall::read_from_bytes
PageTagSmall_read(b) ==
    LET value_size_and_flags   == LEToNat(SubSeq(b, 1, 2))
        value_offset_and_flags == LEToNat(SubSeq(b, 3, 4))
    IN  [value_offset |-> BitAnd(value_offset_and_flags, 8191),
         flags        |-> BitAnd(Shr(value_offset_and_flags, 13), 7),
         value_size   |-> BitAnd(value_size_and_flags, 8191),
         unknown      |-> BitAnd(Shr(value_size_and_flags, 13), 7)]

\* PageTagLarge::read_from_bytes
PageTagLarge_read(b) ==
    LET value_size_and_flags   == LEToNat(SubSeq(b, 1, 2))
        value_offset_and_flags == LEToNat(SubSeq(b, 3, 4))
    IN  [value_offset |-> BitAnd(value_offset_and_flags, 32767),
         offset_flag  |-> BitAnd(value_offset_and_flags, 32768) # 0,
         value_size   |-> BitAnd(value_size_and_flags, 32767),
         size_flag    |-> BitAnd(value_size_and_flags, 32768) # 0]

NextPos(pos, n) == SubSeq(AddLE(pos, U64Of(n)), 1, 8)

RECURSIVE read_small_tags(_, _, _)
\* the loop of lines 430-438: k more tags from stream position pos
read_small_tags(f, pos, k) ==
    IF k = 0 THEN Ok(<<>>)
    ELSE LET r == read_exact(f, pos, 4)
         IN  IF ~IsOk(r) THEN r
             ELSE LET tag  == PageTagSmall_read(r.val)
                      rest == read_small_tags(f, NextPos(pos, 4), k - 1)
                  IN  IF ~IsOk(rest) THEN rest
                      ELSE Ok(<<[value_offset |-> tag.value_offset,
                                 value_size |-> tag.value_size,
                                 flags |-> tag.flags,
                                 flags_in_data |-> FALSE]>> \o rest.val)

\* lines 448-465: the flags of a large page's tag
large_tag_flags(f, hdr, ph, tag, tag_index) ==
    IF tag_index > 0 /\ tag.value_size >= 2
    THEN LET page_offset == page_byte_offset(hdr.page_size, ph_page_number(ph))
         IN  IF ~IsOk(page_offset) THEN page_offset
             ELSE
             LET p1 == u64_add(page_offset.val, U64Of(ph_size_bytes(ph)))
             IN  IF ~IsOk(p1) THEN p1
                 ELSE
                 LET tag_data_pos == u64_add(p1.val, U64Of(tag.value_offset))
                 IN  IF ~IsOk(tag_data_pos) THEN tag_data_pos
                     ELSE
                     LET r == read_exact(f, tag_data_pos.val, 2)
                     IN  IF ~IsOk(r) THEN r
                         ELSE Ok(BitAnd(Shr(LEToNat(r.val), 13), 7))
    ELSE Ok(0)

RECURSIVE read_large_tags(_, _, _, _, _, _)
\* the loop of lines 446-472: tags tag_index .. tag_count-1 from stream position pos
read_large_tags(f, hdr, ph, pos, tag_index, tag_count) ==
    IF tag_index >= tag_count THEN Ok(<<>>)
    ELSE LET r == read_exact(f, pos, 4)
         IN  IF ~IsOk(r) THEN r
             ELSE
             LET tag   == PageTagLarge_read(r.val)
                 flags == large_tag_flags(f, hdr, ph, tag, tag_index)
             IN  IF ~IsOk(flags) THEN flags
                 ELSE
                 LET rest == read_large_tags(f, hdr, ph, NextPos(pos, 4),
                                             tag_index + 1, tag_count)
                 IN  IF ~IsOk(rest) THEN rest
                     ELSE Ok(<<[value_offset |-> tag.value_offset,
                                value_size |-> tag.value_size,
                                flags |-> flags.val,
                                flags_in_data |-> TRUE]>> \o rest.val)

\* The large-page branch pushes its tags onto a vector it declares itself
\* (line 445), which shadows the one the function returns: the returned
\* vector stays as it was before the branch.
tags_after_large_branch(outer, inner) == outer

read_page_tags(f, hdr, ph) ==
    LET tag_count      == ph.first_available_page_tag
        tag_byte_count == 4 * tag_count
        next_page      == u64_add(ph_page_number(ph), U64Of(1))
    IN  IF ~IsOk(next_page) THEN next_page
        ELSE
        LET next_page_byte_offset == page_byte_offset(hdr.page_size, next_page.val)
        IN  IF ~IsOk(next_page_byte_offset) THEN next_page_byte_offset
            ELSE
            LET byte_offset == u64_sub(next_page_byte_offset.val, U64Of(tag_byte_count))
            IN  IF ~IsOk(byte_offset) THEN byte_offset
                ELSE IF hdr.page_size <= MAX_SIZE_SMALL_PAGE
                THEN LET small == read_small_tags(f, byte_offset.val, tag_count)
                     IN  IF ~IsOk(small) THEN small ELSE Ok(Reverse(small.val))
                ELSE LET large == read_large_tags(f, hdr, ph, byte_offset.val, 0, tag_count)
                     IN  IF ~IsOk(large) THEN large
                         ELSE Ok(Reverse(tags_after_large_branch(<<>>, large.val)))

\* WriteError::check_unsigned_max (error.rs)
check_unsigned_max(value, max_value) ==
    IF value <= max_value THEN Ok(value) ELSE Err("UnsignedOutOfRange")

\* PageTagLarge::write_to_bytes: full_tag, a u32, is written little-endian;
\* its low 16 bits are (value_size << 1) | size_flag and its high 16 bits
\* (value_offset << 1) | offset_flag, both below 2^16 after the range checks
PageTagLarge_write(tag) ==
    IF ~IsOk(check_unsigned_max(tag.value_offset, 32767))
    THEN check_unsigned_max(tag.value_offset, 32767)
    ELSE IF ~IsOk(check_unsigned_max(tag.value_size, 32767))
    THEN check_unsigned_max(tag.value_size, 32767)
    ELSE Ok(NatToLE(tag.value_size * 2 + (IF tag.size_flag THEN 1 ELSE 0), 2)
            \o NatToLE(tag.value_offset * 2 + (IF tag.offset_flag THEN 1 ELSE 0), 2))

(***************************************************************************)
(* Bounds and input sets.                                                  *)
(***************************************************************************)
MaxPage == 2
MaxTags == 2

NoCall == [op |-> "none"]
NoHeader == [page_size |-> 0, version |-> <<0, 0, 0, 0>>, format_revision |-> <<0, 0, 0, 0>>]
EmptyFile == [len |-> 0, bytes |-> <<>>]
NoTree == <<>>

\* page sizes on both sides of MAX_SIZE_SMALL_PAGE
PageSizes == {MAX_SIZE_SMALL_PAGE, 2 * MAX_SIZE_SMALL_PAGE}

\* format revisions on both sides of 0x11, under version 0x620
Headers == [page_size : PageSizes, version : {<<32, 6, 0, 0>>},
            format_revision : {<<12, 0, 0, 0>>, <<17, 0, 0, 0>>}]

(***************************************************************************)
(* Page addressing specification: page_byte_offset on page numbers at both *)
(* ends of the u64 range.                                                  *)
(***************************************************************************)
AddrPageSizes == {4096, 8192, 16384, 32768}
AddrPageNumbers == {U64Of(k) : k \in 0..MaxPage} \cup [1..8 -> {0, 255}]

InitAddr ==
    /\ overflow_checks \in BOOLEAN
    /\ file = EmptyFile
    /\ header = NoHeader
    /\ tree = NoTree
    /\ call = NoCall
    /\ ret = NoRet

PageByteOffsetCall ==
    /\ call.op = "none"
    /\ \E ps \in AddrPageSizes, n \in AddrPageNumbers :
          /\ call' = [op |-> "page_byte_offset", page_size |-> ps, page_number |-> n]
          /\ ret' = page_byte_offset(ps, n)
    /\ UNCHANGED <<overflow_checks, file, header, tree>>

NextAddr == PageByteOffsetCall

SpecAddr == InitAddr /\ [][NextAddr]_vars

\* (n + 1) * page_size without any width, 13 bytes wide
ExactOffset(page_size, n) == MulLE(AddLE(n, U64Of(1)), NatToLE(page_size, 4))

\* C1: page_byte_offset(page_size, n) returns (n+1)*page_size for every page
\* number n >= 1 and fails with Page0 for n = 0; no call yields an offset
\* inside the two header pages (offset < 2*page_size).
C1_OffsetForEveryPageNumber ==
    call.op = "page_byte_offset" =>
        IF IsZeroLE(call.page_number) THEN IsErr(ret, "Page0")
        ELSE /\ IsOk(ret)
             /\ ZeroExt(ret.val, 13) = ExactOffset(call.page_size, call.page_number)
             /\ ~LtLE(ZeroExt(ret.val, 13), NatToLE(2 * call.page_size, 13))

\* page_byte_offset is exact wherever (n+1)*page_size fits a u64
OffsetExactWithoutOverflow ==
    (/\ call.op = "page_byte_offset"
     /\ ~IsZeroLE(call.page_number)
     /\ IsZeroLE(SubSeq(ExactOffset(call.page_size, call.page_number), 9, 13)))
    => /\ IsOk(ret)
       /\ ZeroExt(ret.val, 13) = ExactOffset(call.page_size, call.page_number)
       /\ ~LtLE(ZeroExt(ret.val, 13), NatToLE(2 * call.page_size, 13))

(***************************************************************************)
(* Page layer specification: a page header is read, then its tags.         *)
(***************************************************************************)
\* 4-byte tag records: (size 4, offset 0), (size 6, offset 4) with the top
\* bits of both words set, (size 1, offset 10)
TagRecords == {<<4, 0, 0, 0>>, <<6, 32, 4, 160>>, <<1, 0, 10, 0>>}
TagSeqs == UNION {[1..k -> TagRecords] : k \in 0..MaxTags}

\* the second byte of every tag payload: its top 3 bits are the large-page tag flags
PayloadFlagBytes == {0, 160}
PayloadOffsets == {0, 4, 10, 8196}

\* A stream whose page n holds the tag records `tags` (tags[1] = tag index 0,
\* in the last 4 bytes of the page) and stores page number `stored`.
PageFile(ps, n, newck, stored, tags, pfb) ==
    LET base     == (n + 1) * ps
        page_end == (n + 2) * ps
        k        == Len(tags)
        first8   == IF newck THEN <<1, 2, 3, 4, 5, 6, 7, 8>>
                    ELSE <<1, 2, 3, 4>> \o NatToLE(stored, 4)
        flagsv   == LEAF_PAGE + (IF newck THEN NEW_CHECKSUM_FORMAT ELSE 0)
        ext      == IF newck /\ ps > MAX_SIZE_SMALL_PAGE
                    THEN PutLE(base + 64, NatToLE(stored, 8)) ELSE <<>>
        tagbytes == [p \in (page_end - 4 * k)..(page_end - 1) |->
                        tags[(page_end - 1 - p) \div 4 + 1][(p % 4) + 1]]
        payload  == [p \in {base + h + o + 1 : h \in {40, 80}, o \in PayloadOffsets}
                        |-> pfb]
    IN  [len   |-> (MaxPage + 3) * ps,
         bytes |-> PutLE(base, first8) @@ PutLE(base + 34, NatToLE(k, 2))
                   @@ PutLE(base + 36, NatToLE(flagsv, 4)) @@ ext @@ tagbytes @@ payload]

InitPage ==
    /\ overflow_checks \in BOOLEAN
    /\ header \in Headers
    /\ \E n \in 1..MaxPage, newck \in BOOLEAN, stored \in 1..MaxPage,
          tags \in TagSeqs, pfb \in PayloadFlagBytes :
          file = PageFile(header.page_size, n, newck, stored, tags, pfb)
    /\ tree = NoTree
    /\ call = NoCall
    /\ ret = NoRet

ReadPageHeader ==
    /\ call.op = "none"
    /\ \E n \in 0..MaxPage :
          /\ call' = [op |-> "read_page_header", page_number |-> U64Of(n)]
          /\ ret' = read_page_header(file, header, U64Of(n))
    /\ UNCHANGED <<overflow_checks, file, header, tree>>

ReadPageTags ==
    /\ call.op = "read_page_header"
    /\ IsOk(ret)
    /\ call' = [op |-> "read_page_tags", page_header |-> ret.val]
    /\ ret' = read_page_tags(file, header, ret.val)
    /\ UNCHANGED <<overflow_checks, file, header, tree>>

NextPage == ReadPageHeader \/ ReadPageTags

SpecPage == InitPage /\ [][NextPage]_vars

\* the 4-byte tag record of tag index i of the page that page_header names
TagRecordAt(f, ps, ph, i) ==
    LET page_end == (LEToNat(ph_page_number(ph)) + 2) * ps
    IN  [j \in 1..4 |-> ByteAt(f, page_end - 4 * (i + 1) + j - 1)]

TagMask(ps) == IF ps <= MAX_SIZE_SMALL_PAGE THEN 8191 ELSE 32767

\* C2: for any page, small or large, read_page_tags returns exactly
\* first_available_page_tag tags, and element i is the tag record stored at
\* page_end - 4*(i+1).
C2_TagsMirrorPageEnd ==
    (call.op = "read_page_tags" /\ IsOk(ret)) =>
        /\ Len(ret.val) = call.page_header.first_available_page_tag
        /\ \A i \in 0..(Len(ret.val) - 1) :
              LET rec == TagRecordAt(file, header.page_size, call.page_header, i)
              IN  /\ ret.val[i + 1].value_size
                        = BitAnd(LEToNat(SubSeq(rec, 1, 2)), TagMask(header.page_size))
                  /\ ret.val[i + 1].value_offset
                        = BitAnd(LEToNat(SubSeq(rec, 3, 4)), TagMask(header.page_size))

\* the same on small pages only
SmallPageTagsMirrorPageEnd ==
    header.page_size <= MAX_SIZE_SMALL_PAGE => C2_TagsMirrorPageEnd

SmallPageTagsRead ==
    /\ call.op = "read_page_tags" /\ IsOk(ret)
    /\ header.page_size <= MAX_SIZE_SMALL_PAGE
    /\ Len(ret.val) = MaxTags

\* the bytes of the raw page header of page n, as the stream holds them
RawHeaderBytes(f, ps, n, from, to) ==
    [j \in 1..(to - from) |-> ByteAt(f, (n + 1) * ps + from + j - 1)]

\* C25: the variant of the page header read_page_header returns is decided
\* by the NEW_CHECKSUM_FORMAT flag of the page, the version and revision of
\* the database header and the page size: flag clear gives V1 (XOR checksum
\* the low, page number the high 32 bits of the first u64) of size 40; flag
\* set gives V3 from version and revision 0x0000_0620_0000_0011 on and V2
\* before, with an extended header (size 80) exactly when page_size > 8192
\* and the page number of the caller (size 40) otherwise.
C25_VariantByFlagRevisionPageSize ==
    (call.op = "read_page_header" /\ IsOk(ret)) =>
        LET n == LEToNat(call.page_number)
            first == RawHeaderBytes(file, header.page_size, n, 0, 8)
            flags == RawHeaderBytes(file, header.page_size, n, 36, 40)
            c == ret.val.checksum_and_page_number
        IN  IF ~ContainsBits(flags, NEW_CHECKSUM_FORMAT)
            THEN /\ c = [v |-> "V1", xor_checksum |-> SubSeq(first, 1, 4),
                         page_number |-> SubSeq(first, 5, 8)]
                 /\ ph_size_bytes(ret.val) = 40
            ELSE /\ c.v = IF LtLE(header.format_revision \o header.version,
                                  <<17, 0, 0, 0, 32, 6, 0, 0>>)
                          THEN "V2" ELSE "V3"
                 /\ c.v = "V3" => c.checksum = first
                 /\ c.v = "V2" => /\ c.xor_checksum = SubSeq(first, 1, 4)
                                  /\ c.ecc_checksum = SubSeq(first, 5, 8)
                 /\ IF header.page_size > 8192
                    THEN /\ c.extended_header.v = "ExtendedPageHeader"
                         /\ c.extended_header.page_number
                                = RawHeaderBytes(file, header.page_size, n, 64, 72)
                         /\ ph_size_bytes(ret.val) = 80
                    ELSE /\ c.extended_header = [v |-> "PageNumber", pn |-> call.page_number]
                         /\ ph_size_bytes(ret.val) = 40

\* a V3 header with an extended header: 80 bytes
C25_V3WithExtendedHeader ==
    /\ call.op = "read_page_header" /\ IsOk(ret)
    /\ header.page_size > 8192
    /\ ret.val.checksum_and_page_number.v = "V3"
    /\ ret.val.checksum_and_page_number.extended_header.v = "ExtendedPageHeader"
    /\ ph_size_bytes(ret.val) = 80

\* all three variants are returned, V2 with the page number of the caller
C25_V2WithPageNumber ==
    /\ call.op = "read_page_header" /\ IsOk(ret)
    /\ ret.val.checksum_and_page_number.v = "V2"
    /\ ret.val.checksum_and_page_number.extended_header
           = [v |-> "PageNumber", pn |-> call.page_number]

C25_V1Returned ==
    /\ call.op = "read_page_header" /\ IsOk(ret)
    /\ ret.val.checksum_and_page_number.v = "V1"

\* C28: for every page number n >= 1 and every content of the stream, the
\* page header read_page_header(n) returns reports page_number() = n, so
\* that read_page_tags and read_data_for_tag, which find the page by
\* page_header.page_number(), read the page whose header was read.
C28_HeaderReportsRequestedPage ==
    (call.op = "read_page_header" /\ IsOk(ret)) =>
        ph_page_number(ret.val) = call.page_number

\* where the header holds the page number of the caller (new checksum format
\* on a small page) it reports the page asked for
C28_CallerPageNumberReported ==
    (/\ call.op = "read_page_header" /\ IsOk(ret)
     /\ ret.val.checksum_and_page_number.v # "V1"
     /\ header.page_size <= MAX_SIZE_SMALL_PAGE)
        => ph_page_number(ret.val) = call.page_number

\* the tags read_page_tags returned are not those of the page whose header
\* was read: the header of a page that stores another page's number names
\* that page, and the tag records come from its end
C28_TagsOfAnotherPage ==
    /\ call.op = "read_page_tags" /\ IsOk(ret)
    /\ header.page_size <= MAX_SIZE_SMALL_PAGE
    /\ call.page_header.checksum_and_page_number.v = "V1"
    /\ call.page_header.first_available_page_tag = MaxTags
    /\ \E n \in 1..MaxPage :
          /\ n # LEToNat(ph_page_number(call.page_header))
          /\ RawHeaderBytes(file, header.page_size, n, 34, 36) = NatToLE(MaxTags, 2)
          /\ ByteAt(file, (n + 2) * header.page_size - 4) # 0
    /\ \A i \in 1..Len(ret.val) : ret.val[i].value_size = 0

\* page 1 stores page number 2 in its old-format header: the header read for
\* page 1 reports page 2
C28_StoredPageNumberReported ==
    /\ call.op = "read_page_header" /\ IsOk(ret)
    /\ call.page_number = U64Of(1)
    /\ ret.val.checksum_and_page_number.v = "V1"
    /\ RawHeaderBytes(file, header.page_size, 1, 4, 8) = NatToLE(2, 4)
    /\ ph_page_number(ret.val) = U64Of(2)

\* the tags the large-page branch of read_page_tags decodes, in page order
\* (element 1 is tag index 0, the record in the last 4 bytes of the page)
LargeTagsDecoded(f, hdr, ph) ==
    Reverse(read_large_tags(f, hdr, ph,
                SubSeq(NatToLE((LEToNat(ph_page_number(ph)) + 2) * hdr.page_size
                               - 4 * ph.first_available_page_tag, 8), 1, 8),
                0, ph.first_available_page_tag).val)

\* the top 3 bits of the first u16 of the payload of the tag
PayloadFlags(f, hdr, ph, tag) ==
    ByteAt(f, (LEToNat(ph_page_number(ph)) + 1) * hdr.page_size + ph_size_bytes(ph)
              + tag.value_offset + 1) \div 32

LargePageDecoded ==
    /\ call.op = "read_page_tags" /\ IsOk(ret)
    /\ header.page_size > MAX_SIZE_SMALL_PAGE

\* C26: when read_page_tags decodes a large page, the first tag of the page
\* (tag index 0, the record in the last 4 bytes of the page) is assigned
\* empty flags whatever its payload holds; every other tag with
\* value_size >= 2 is assigned the top 3 bits of the first u16 of its
\* payload, every tag with value_size < 2 empty flags.
C26_FirstTagWithoutFlags ==
    LargePageDecoded =>
        LET tags == LargeTagsDecoded(file, header, call.page_header)
        IN  /\ Len(tags) = call.page_header.first_available_page_tag
            /\ \A i \in 1..Len(tags) :
                  tags[i].flags = IF i > 1 /\ tags[i].value_size >= 2
                                  THEN PayloadFlags(file, header, call.page_header, tags[i])
                                  ELSE 0

\* what the code assigns: the tag read first, the last of the page, is the
\* one without flags
C26_LastTagWithoutFlags ==
    LargePageDecoded =>
        LET tags == LargeTagsDecoded(file, header, call.page_header)
        IN  /\ Len(tags) = call.page_header.first_available_page_tag
            /\ \A i \in 1..Len(tags) :
                  tags[i].flags = IF i < Len(tags) /\ tags[i].value_size >= 2
                                  THEN PayloadFlags(file, header, call.page_header, tags[i])
                                  ELSE 0
            /\ ret.val = <<>>

\* two tags on a large page: tag index 0 is given the flags of its payload
C26_FirstTagGivenPayloadFlags ==
    /\ LargePageDecoded
    /\ Len(LargeTagsDecoded(file, header, call.page_header)) = 2
    /\ LargeTagsDecoded(file, header, call.page_header)[1].value_size >= 2
    /\ LargeTagsDecoded(file, header, call.page_header)[1].flags = 5
    /\ LargeTagsDecoded(file, header, call.page_header)[2].value_size >= 2
    /\ LargeTagsDecoded(file, header, call.page_header)[2].flags = 0

(***************************************************************************)
(* Tag codec specification: a large page tag is written to a stream and    *)
(* read back from it.                                                      *)
(***************************************************************************)
\* u16 values at both ends of the 15-bit range and beyond it
TagFieldValues == {0, 1, 2, 16383, 16384, 32767, 32768, 65535}

PageTagsLarge ==
    [value_offset : TagFieldValues, offset_flag : BOOLEAN,
     value_size : TagFieldValues, size_flag : BOOLEAN]

InitTag ==
    /\ overflow_checks \in BOOLEAN
    /\ file = EmptyFile
    /\ header = NoHeader
    /\ tree = NoTree
    /\ call = NoCall
    /\ ret = NoRet

\* PageTagLarge::write_to_bytes to an empty stream
WriteToBytes ==
    /\ call.op = "none"
    /\ \E tag \in PageTagsLarge :
          /\ call' = [op |-> "write_to_bytes", tag |-> tag]
          /\ ret' = PageTagLarge_write(tag)
          /\ file' = IF IsOk(PageTagLarge_write(tag))
                     THEN [len |-> 4, bytes |-> PutLE(0, PageTagLarge_write(tag).val)]
                     ELSE file
    /\ UNCHANGED <<overflow_checks, header, tree>>

\* PageTagLarge::read_from_bytes on the stream that was written
ReadFromBytes ==
    /\ call.op = "write_to_bytes"
    /\ IsOk(ret)
    /\ call' = [op |-> "read_from_bytes", tag |-> call.tag]
    /\ ret' = LET r == read_exact(file, U64Of(0), 4)
              IN  IF IsOk(r) THEN Ok(PageTagLarge_read(r.val)) ELSE r
    /\ UNCHANGED <<overflow_checks, file, header, tree>>

NextTag == WriteToBytes \/ ReadFromBytes

SpecTag == InitTag /\ [][NextTag]_vars

\* C27: large page tags round-trip through their two codec routines: for
\* every PageTagLarge with value_offset and value_size below 2^15 and any
\* offset_flag and size_flag, the 4 bytes write_to_bytes produces are
\* decoded by read_from_bytes to an equal PageTagLarge.
C27_LargeTagRoundTrip ==
    call.op = "read_from_bytes" => ret = Ok(call.tag)

\* what is read back: each field doubled plus its flag, cut to 15 bits, and
\* as flag the top bit of the field that was written
C27_ReadBackShiftedByOneBit ==
    call.op = "read_from_bytes" =>
        /\ IsOk(ret)
        /\ ret.val.value_size
               = (2 * call.tag.value_size + (IF call.tag.size_flag THEN 1 ELSE 0)) % 32768
        /\ ret.val.size_flag = (call.tag.value_size >= 16384)
        /\ ret.val.value_offset
               = (2 * call.tag.value_offset + (IF call.tag.offset_flag THEN 1 ELSE 0)) % 32768
        /\ ret.val.offset_flag = (call.tag.value_offset >= 16384)

\* value_size 1 without flags is written as 02 00 00 00 and read as 2
C27_SizeOneReadAsTwo ==
    /\ call.op = "read_from_bytes"
    /\ call.tag = [value_offset |-> 0, offset_flag |-> FALSE,
                   value_size |-> 1, size_flag |-> FALSE]
    /\ file.bytes = PutLE(0, <<2, 0, 0, 0>>)
    /\ ret = Ok([value_offset |-> 0, offset_flag |-> FALSE,
                 value_size |-> 2, size_flag |-> FALSE])

(***************************************************************************)
(* Header specification: a stream that starts with a primary and a shadow  *)
(* header page is decoded; a stream whose header was accepted may have one *)
(* bit flipped and be decoded again.                                       *)
(***************************************************************************)
\* the page-size field: 668 and 680 pass both size checks; 664 is too
\* small, 667 too small and odd, 670 large enough but no multiple of 4
GoodPageSizes == {668, 680}
BadPageSizes == {664, 667, 670}
HdrStreamLens == {400, 672, 1360}
HdrDataBytes == {0, 7}

\* the bytes of the primary header page, short of its checksum
HeaderPageBody(sig_ok, ps, d) ==
    LET extent == IF ps < HEADER_SIZE THEN HEADER_SIZE ELSE ps
    IN  [i \in 1..extent |->
            IF i \in 5..8 THEN (IF sig_ok \/ i # 5 THEN HEADER_SIGNATURE[i - 4] ELSE 0)
            ELSE IF i \in 9..12 THEN <<32, 6, 0, 0>>[i - 8]
            ELSE IF i \in 237..240 THEN NatToLE(ps, 4)[i - 236]
            ELSE IF i = 241 \/ i = extent THEN d
            ELSE 0]

\* primary page and an equal shadow page, cut to len bytes
HeaderFile(sig_ok, ps, d, ck_ok, len) ==
    LET body == HeaderPageBody(sig_ok, ps, d)
        good == calculated_checksum(body)
        ck   == IF ck_ok THEN good ELSE XorWord(good, <<1, 0, 0, 0>>)
        page == [i \in 1..Len(body) |-> IF i <= 4 THEN ck[i] ELSE body[i]]
        nz   == {i \in 1..Len(page) : page[i] # 0}
    IN  [len   |-> len,
         bytes |-> [q \in {i - 1 : i \in nz} \cup {Len(page) + i - 1 : i \in nz} |->
                        IF q < Len(page) THEN page[q + 1] ELSE page[q - Len(page) + 1]]]

InitHeader ==
    /\ overflow_checks \in BOOLEAN
    /\ header = NoHeader
    /\ \E sig_ok \in BOOLEAN, ps \in GoodPageSizes \cup BadPageSizes,
          d \in HdrDataBytes, ck_ok \in BOOLEAN,
          len \in HdrStreamLens :
          file = HeaderFile(sig_ok, ps, d, ck_ok, len)
    /\ tree = NoTree
    /\ call = NoCall
    /\ ret = NoRet

ReadHeader ==
    /\ call.op \in {"none", "flip"}
    /\ call' = [op |-> "read_header", flipped |-> (call.op = "flip"),
                pos |-> IF call.op = "flip" THEN call.pos ELSE 0]
    /\ ret' = read_header(file)
    /\ header' = IF IsOk(ret')
                 THEN [page_size |-> ret'.val.page_size, version |-> ret'.val.version,
                       format_revision |-> ret'.val.format_revision]
                 ELSE header
    /\ UNCHANGED <<overflow_checks, file, tree>>

\* byte positions in [8, page_size): the first word after the signature, the
\* words around and of the page-size field (236..239), the end of the
\* header record and the end of the page
FlipPositions(ps) == (8..11) \cup (232..243) \cup (664..667) \cup ((ps - 4)..(ps - 1))

\* one bit of the accepted header page is flipped
FlipBit ==
    /\ call.op = "read_header" /\ ~call.flipped /\ IsOk(ret)
    /\ \E pos \in FlipPositions(header.page_size), bit \in 0..7 :
          /\ file' = [file EXCEPT !.bytes =
                          (pos :> BitXor(ByteAt(file, pos), 2 ^ bit)) @@ file.bytes]
          /\ call' = [op |-> "flip", pos |-> pos, bit |-> bit]
    /\ ret' = NoRet
    /\ UNCHANGED <<overflow_checks, header, tree>>

NextHeader == ReadHeader \/ FlipBit

SpecHeader == InitHeader /\ [][NextHeader]_vars

\* the stream's first n bytes
StreamPrefix(f, n) == [i \in 1..n |-> ByteAt(f, i - 1)]

C4_FirstFailingCheckDecides ==
    (call.op = "read_header" /\ file.len >= HEADER_SIZE) =>
        LET b        == StreamPrefix(file, HEADER_SIZE)
            sig_ok   == SubSeq(b, 5, 8) = HEADER_SIGNATURE
            psb      == SubSeq(b, 237, 240)
            long_ok  == ~LtLE(psb, NatToLE(HEADER_SIZE, 4))
            div_ok   == psb[1] % 4 = 0
            has_page == psb[4] = 0 /\ LEToNat(psb) <= file.len
            ck_ok    == LET page == StreamPrefix(file, LEToNat(psb))
                        IN  SubSeq(page, 1, 4) = xor_chunks(page, 2)
        IN  IF ~sig_ok THEN IsErr(ret, "WrongHeaderSignature")
            ELSE IF ~long_ok THEN IsErr(ret, "HeaderLongerThanPage")
            ELSE IF ~div_ok THEN IsErr(ret, "PageSizeNotDivisibleBy4")
            ELSE IF ~has_page THEN IsErr(ret, "Io")
            ELSE IF ~ck_ok THEN IsErr(ret, "WrongHeaderChecksum")
            ELSE IsOk(ret) /\ ret.val.signature = HEADER_SIGNATURE

\* a wrong signature is reported although the page size is too small as well
C4_SignatureReportedBeforePageSize ==
    /\ call.op = "read_header"
    /\ IsErr(ret, "WrongHeaderSignature")
    /\ LtLE(SubSeq(StreamPrefix(file, HEADER_SIZE), 237, 240), NatToLE(HEADER_SIZE, 4))

(***************************************************************************)
(* page.rs: the tree walker read_data_from_tree.  Its code is not part of  *)
(* the sources at hand; it is modelled from its contract and procedure     *)
(* (spec 4.5) and from its call sites (table.rs 800-810, 929-931).         *)
(* tree maps a page number to [leaf, tags]: tags[1] is the page's header   *)
(* tag, the tags after it are the page's entries: local_page_key and      *)
(* entry_data (leaf page) or child_page_number (branch page).              *)
(***************************************************************************)
\* LeafPageEntry, BranchPageEntry and the header tag as one record shape
LeafEntry(key, data) == [local_page_key |-> key, entry_data |-> data, child_page_number |-> 0]
BranchEntry(child) == [local_page_key |-> <<>>, entry_data |-> <<>>, child_page_number |-> child]
HeaderTag == [local_page_key |-> <<>>, entry_data |-> <<0>>, child_page_number |-> 0]

\* usize::MAX of table.rs line 931: more than any tree holds
USIZE_MAX == (2 ^ 30 - 1) + 2 ^ 30

WalkStart(out, cursor) == [out |-> out, cursor |-> cursor, visited |-> <<>>, err |-> "none"]

tree_walk_never_done(st, max_count) == FALSE

\* "Traversal stops as soon as out.len() == max_count"
tree_walk_done(st, max_count) == Len(st.out) = max_count

tree_entry_wanted_after_start(st, start_index) == st.cursor > start_index

\* an entry is appended "once cursor >= start_index"
tree_entry_wanted(st, start_index) == st.cursor >= start_index

\* a leaf entry is visited: appended or skipped, and the cursor moves on
visit_leaf_entry(st, entry_data, start_index) ==
    [st EXCEPT !.out = IF tree_entry_wanted(st, start_index)
                       THEN Append(st.out, entry_data) ELSE st.out,
               !.cursor = st.cursor + 1,
               !.visited = Append(st.visited, entry_data)]

RECURSIVE walk_page(_, _, _, _, _)
RECURSIVE walk_tags(_, _, _, _, _, _)
\* the tags of one page from tag i on (tags[1], the header tag, is no entry)
walk_tags(t, pg, i, start_index, max_count, st) ==
    IF st.err # "none" \/ i > Len(pg.tags) \/ tree_walk_done(st, max_count) THEN st
    ELSE walk_tags(t, pg, i + 1, start_index, max_count,
                   IF pg.leaf THEN visit_leaf_entry(st, pg.tags[i].entry_data, start_index)
                   ELSE walk_page(t, pg.tags[i].child_page_number, start_index, max_count, st))

\* read the page header and tags; a page the stream does not hold is an Io error
walk_page(t, page_number, start_index, max_count, st) ==
    IF page_number \notin DOMAIN t THEN [st EXCEPT !.err = "Io"]
    ELSE walk_tags(t, t[page_number], 2, start_index, max_count, st)

\* read_data_from_tree(reader, header, root_page, start_index, max_count,
\*                     &mut out, &mut cursor)
read_data_from_tree(t, root_page, start_index, max_count, out, cursor) ==
    LET st == walk_page(t, root_page, start_index, max_count, WalkStart(out, cursor))
    IN  [kind |-> IF st.err = "none" THEN "ok" ELSE "err", err |-> st.err,
         out |-> st.out, cursor |-> st.cursor, visited |-> st.visited]

(***************************************************************************)
(* Tree specification: read_data_from_tree on trees of every shape within  *)
(* the bounds, called as its callers call it (out empty, cursor 0).        *)
(***************************************************************************)
MaxTreePages == 3
MaxLeafEntries == 2
MaxStart == 3
MaxCount == 3

\* the child lists of a branch page p: one or two pages after p, in
\* ascending order; page MaxTreePages + 1 is not in the stream
ChildLists(p) ==
    LET later == (p + 1)..(MaxTreePages + 1)
    IN  {<<c>> : c \in later} \cup
        {<<pr[1], pr[2]>> : pr \in {q \in later \X later : q[1] < q[2]}}

\* entry n of leaf page p carries the bytes <<p, n>>
LeafPages(p) ==
    {[leaf |-> TRUE, tags |-> <<HeaderTag>> \o [n \in 1..k |-> LeafEntry(<<n>>, <<p, n>>)]] :
        k \in 0..MaxLeafEntries}

BranchPages(p) ==
    {[leaf |-> FALSE, tags |-> <<HeaderTag>> \o [n \in 1..Len(c) |-> BranchEntry(c[n])]] :
        c \in ChildLists(p)}

Trees == {t \in [1..MaxTreePages -> UNION {LeafPages(p) \cup BranchPages(p) :
                                              p \in 1..MaxTreePages}] :
              \A p \in 1..MaxTreePages : t[p] \in LeafPages(p) \cup BranchPages(p)}

InitTree ==
    /\ overflow_checks \in BOOLEAN
    /\ file = EmptyFile
    /\ header = NoHeader
    /\ tree \in Trees
    /\ call = NoCall
    /\ ret = NoRet

ReadDataFromTree ==
    /\ call.op = "none"
    /\ \E start_index \in 0..MaxStart, max_count \in (0..MaxCount) \cup {USIZE_MAX} :
          /\ call' = [op |-> "read_data_from_tree", root_page |-> 1,
                      start_index |-> start_index, max_count |-> max_count]
          /\ ret' = read_data_from_tree(tree, 1, start_index, max_count, <<>>, 0)
    /\ UNCHANGED <<overflow_checks, file, header, tree>>

NextTree == ReadDataFromTree

SpecTree == InitTree /\ [][NextTree]_vars

RECURSIVE InOrderFrom(_, _, _)
\* the leaf entries below tags i.. of page p, branch children in tag order
InOrderFrom(t, p, i) ==
    IF p \notin DOMAIN t \/ i > Len(t[p].tags) THEN <<>>
    ELSE (IF t[p].leaf THEN <<t[p].tags[i]>>
          ELSE InOrderFrom(t, t[p].tags[i].child_page_number, 2))
         \o InOrderFrom(t, p, i + 1)

\* the payloads of the leaf entries in order
InOrder(t, root_page) ==
    LET entries == InOrderFrom(t, root_page, 2)
    IN  [k \in 1..Len(entries) |-> entries[k].entry_data]

\* C5: one call of read_data_from_tree appends at most max_count leaf
\* payloads to out, and visits no leaf entry after the one that filled out:
\* it visits at most the start_index skipped entries and max_count more.
C5_AtMostMaxCountAndStops ==
    call.op = "read_data_from_tree" =>
        /\ Len(ret.out) <= call.max_count
        /\ Len(ret.visited) - call.start_index <= call.max_count
        /\ (Len(ret.out) = call.max_count /\ call.max_count > 0)
              => ret.visited[Len(ret.visited)] = ret.out[Len(ret.out)]

\* the walk filled out and left leaf entries of the tree unvisited
C5_StoppedBeforeTheEnd ==
    /\ call.op = "read_data_from_tree"
    /\ call.max_count = 2 /\ Len(ret.out) = 2
    /\ Len(ret.visited) < Len(InOrder(tree, call.root_page))
    /\ ~tree[call.root_page].leaf

\* C6: with the cursor initially 0, a call that returns Ok has appended
\* exactly the leaf payloads at positions start_index .. start_index +
\* max_count - 1 (0-based, cut at the end of the tree) of the in-order
\* sequence of the leaf entries, in that order; the skip count runs on
\* across the pages.
C6_ExactlyTheWindowInOrder ==
    (call.op = "read_data_from_tree" /\ IsOk(ret)) =>
        LET all  == InOrder(tree, call.root_page)
            from == call.start_index
            to   == IF call.max_count >= Len(all) - from THEN Len(all)
                    ELSE from + call.max_count
        IN  ret.out = SubSeq(all, from + 1, to)

\* the skipped entries lie on one leaf page and the appended ones on a later one
C6_WindowAcrossPages ==
    /\ call.op = "read_data_from_tree" /\ IsOk(ret)
    /\ call.start_index = 2 /\ Len(ret.out) = 2
    /\ ret.visited[1][1] # ret.out[1][1]

(***************************************************************************)
(* table.rs / data.rs: values.  An integer, float or GUID value is         *)
(* denoted by the little-endian bytes it is built from (from_le_bytes is a *)
(* bijection on them); a string is the sequence of its code points.        *)
(***************************************************************************)
Data(t, v) == [t |-> t, v |-> v]
Nil == Data("Nil", <<>>)

Simple(d) == [kind |-> "Simple", values |-> <<d>>, flags |-> 0]
Complex(d, flags) == [kind |-> "Complex", values |-> <<d>>, flags |-> flags]
Multiple(values, flags) == [kind |-> "Multiple", values |-> values, flags |-> flags]

None == [some |-> FALSE, v |-> 0]
Some(v) == [some |-> TRUE, v |-> v]

\* TagFlags, SmallTagFlags
SEPARATED == 4
MULTI_VALUES == 8
TWO_VALUES == 16
TAG_NULL == 32
TAG_DERIVED == 128
SMALL_NULL == 8192
HAS_EXTENDED_FLAGS == 16384
SMALL_DERIVED == 32768

\* bitflags contains() for a single-bit flag
Has(flags, bit) == (flags \div bit) % 2 = 1

\* TagFlags::from_small
from_small(small_flags) ==
    (IF Has(small_flags, SMALL_NULL) THEN TAG_NULL ELSE 0)
    + (IF Has(small_flags, SMALL_DERIVED) THEN TAG_DERIVED ELSE 0)

\* the byte sequence s[from..to) in Rust's 0-based half-open indexing
Slice(s, from, to) == SubSeq(s, from + 1, to)

\* u16::from_le_bytes of the two bytes at 0-based offset off
U16At(s, off) == s[off + 1] + 256 * s[off + 2]

(***************************************************************************)
(* table.rs: decode_string.                                                *)
(***************************************************************************)
RECURSIVE from_utf16(_, _)
\* String::from_utf16(words[i..]): an unpaired surrogate is an error
from_utf16(words, i) ==
    IF i > Len(words) THEN Ok(<<>>)
    ELSE LET w == words[i]
         IN  IF w \notin 55296..57343
             THEN LET rest == from_utf16(words, i + 1)
                  IN  IF IsOk(rest) THEN Ok(<<w>> \o rest.val) ELSE rest
             ELSE IF w <= 56319 /\ i < Len(words) /\ words[i + 1] \in 56320..57343
             THEN LET rest == from_utf16(words, i + 2)
                  IN  IF IsOk(rest)
                      THEN Ok(<<65536 + (w - 55296) * 1024 + (words[i + 1] - 56320)>>
                              \o rest.val)
                      ELSE rest
             ELSE Err("FromUtf16Error")

\* windows-1252 as encoding_rs decodes it: bytes 0x80..0x9F by table
Windows1252High ==
    <<8364, 129, 8218, 402, 8222, 8230, 8224, 8225, 710, 8240, 352, 8249, 338, 141,
      381, 143, 144, 8216, 8217, 8220, 8221, 8226, 8211, 8212, 732, 8482, 353, 8250,
      339, 157, 382, 376>>

windows_1252_decode(bytes) ==
    [i \in 1..Len(bytes) |->
        IF bytes[i] \in 128..159 THEN Windows1252High[bytes[i] - 127] ELSE bytes[i]]

\* decode_string(bytes, codepage); of the code pages codepage::to_encoding
\* knows, the model draws 1252 only
decode_string(bytes, codepage) ==
    IF codepage = 1200
    THEN LET words == [k \in 1..(Len(bytes) \div 2) |-> U16At(bytes, 2 * (k - 1))]
             str == from_utf16(words, 1)
         IN  IF IsOk(str) THEN str ELSE Panic
    ELSE IF codepage < 0 \/ codepage > 65535 THEN Panic
    ELSE IF codepage # 1252 THEN Panic
    ELSE Ok(windows_1252_decode(bytes))

(***************************************************************************)
(* table.rs: decode_row, the fixed region.                                 *)
(***************************************************************************)
Column(column_id, column_type, length, codepage) ==
    [column_id |-> column_id, column_type |-> column_type, length |-> length,
     codepage |-> codepage]

\* sorted_columns (lines 495-496), for columns of distinct ids
sort_by_column_id(columns) ==
    LET cs == {columns[i] : i \in 1..Len(columns)}
    IN  [i \in 1..Cardinality(cs) |->
            CHOOSE c \in cs : Cardinality({d \in cs : d.column_id < c.column_id}) = i - 1]

SelectColumns(sorted, lo, hi) ==
    SelectSeq(sorted, LAMBDA c : c.column_id >= lo /\ c.column_id < hi)

\* lines 545-617: the bytes a fixed column of this type reads; 0 - 1 for the
\* types the fixed region rejects
fixed_width(column) ==
    CASE column.column_type \in {"Bit", "UnsignedByte"} -> 1
      [] column.column_type \in {"Short", "UnsignedShort"} -> 2
      [] column.column_type \in {"Long", "UnsignedLong", "IeeeSingle"} -> 4
      [] column.column_type \in {"Currency", "IeeeDouble", "DateTime", "LongLong"} -> 8
      [] column.column_type = "Guid" -> 16
      [] column.column_type \in {"Binary", "Text"} -> column.length
      [] OTHER -> 0 - 1

\* lines 545-617: the value of one fixed column read at pos of fixed_slice
fixed_value(column, fixed_slice, pos) ==
    IF column.column_type \in {"Nil", "LongBinary", "LongText", "SuperLongValue", "Other"}
    THEN Err("UnexpectedFixedColumnDataType")
    ELSE IF fixed_width(column) < 0 THEN Panic
    ELSE IF pos + fixed_width(column) > Len(fixed_slice) THEN Err("Io")
    ELSE LET bytes == Slice(fixed_slice, pos, pos + fixed_width(column))
         IN  IF column.column_type = "Text"
             THEN LET str == decode_string(bytes, column.codepage)
                  IN  IF IsOk(str) THEN Ok(Data("Text", str.val)) ELSE str
             ELSE Ok(Data(column.column_type, bytes))

I32_MAX == (2 ^ 30 - 1) + 2 ^ 30
I32_MIN == (0 - 2 ^ 30) - 2 ^ 30

\* line 621: (column_id - 1).try_into().unwrap(); i32::MIN - 1 panics where
\* overflow is checked and wraps to i32::MAX where it is not; 0 - 1 stands
\* for the panic of unwrap() on a negative index
column_index_of(column_id) ==
    IF column_id = I32_MIN THEN (IF overflow_checks THEN 0 - 1 ELSE I32_MAX)
    ELSE IF column_id - 1 < 0 THEN 0 - 1
    ELSE column_id - 1

is_null_reading_next_bit(column_id, nullity_slice) ==
    LET column_index == column_index_of(column_id)
        next == IF column_index = I32_MAX THEN column_index ELSE column_index + 1
    IN  /\ next \div 8 < Len(nullity_slice)
        /\ Has(nullity_slice[(next \div 8) + 1], 2 ^ (next % 8))

\* lines 620-629
is_null(column_id, nullity_slice) ==
    LET column_index == column_index_of(column_id)
        byte_index == column_index \div 8
        bit_index == column_index % 8
    IN  /\ byte_index < Len(nullity_slice)
        /\ Has(nullity_slice[byte_index + 1], 2 ^ bit_index)

RECURSIVE decode_fixed(_, _, _, _, _, _)
\* the loop of lines 542-637 from the k-th taken column on
decode_fixed(taken, k, pos, fixed_slice, nullity_slice, map) ==
    IF k > Len(taken) THEN Ok(map)
    ELSE LET fixed_column == taken[k]
             value == fixed_value(fixed_column, fixed_slice, pos)
         IN  IF ~IsOk(value) THEN value
             ELSE IF column_index_of(fixed_column.column_id) < 0 THEN Panic
             ELSE decode_fixed(taken, k + 1, pos + fixed_width(fixed_column),
                               fixed_slice, nullity_slice,
                               (fixed_column.column_id :>
                                   Simple(IF is_null(fixed_column.column_id, nullity_slice)
                                          THEN Nil ELSE value.val)) @@ map)

(***************************************************************************)
(* table.rs: decode_row, the variable region.                              *)
(***************************************************************************)
\* lines 644-648
read_variable_offsets(variable_offsets_slice, variable_column_count) ==
    <<0>> \o [i \in 1..variable_column_count |-> U16At(variable_offsets_slice, 2 * (i - 1))]

ColumnsWithId(columns, column_id) ==
    SelectSeq(columns, LAMBDA c : c.column_id = column_id)

variable_value_unknown_dropped(column_def, data_slice) == Ok(<<>>)

\* lines 664-692: the value of one present variable column, <<>> or <<data>>
variable_value(column_def, data_slice) ==
    IF column_def = <<>> THEN Ok(<<Data("Binary", data_slice)>>)
    ELSE IF column_def[1].column_type = "Text"
    THEN LET str == decode_string(data_slice, column_def[1].codepage)
         IN  IF IsOk(str) THEN Ok(<<Data("Text", str.val)>>) ELSE str
    ELSE IF column_def[1].column_type = "Binary" THEN Ok(<<Data("Binary", data_slice)>>)
    ELSE Err("UnexpectedFixedColumnDataType")

RECURSIVE decode_variable(_, _, _, _, _)
\* the loop of lines 650-694 from window i on (i = 1 is column 128)
decode_variable(i, variable_offsets, data, variable_columns, map) ==
    IF i >= Len(variable_offsets) THEN Ok(map)
    ELSE LET column_id == 128 + (i - 1)
             begin_raw == variable_offsets[i]
             end_raw   == variable_offsets[i + 1]
             begin     == begin_raw % 32768
             end       == end_raw % 32768
         IN  IF end_raw >= 32768
             THEN decode_variable(i + 1, variable_offsets, data, variable_columns, map)
             ELSE IF begin > end \/ end > Len(data) THEN Panic
             ELSE LET value == variable_value(ColumnsWithId(variable_columns, column_id),
                                              Slice(data, begin, end))
                  IN  IF ~IsOk(value) THEN value
                      ELSE decode_variable(i + 1, variable_offsets, data, variable_columns,
                               IF value.val = <<>> THEN map
                               ELSE (column_id :> Simple(value.val[1])) @@ map)

(***************************************************************************)
(* table.rs: decode_row, the tagged region.                                *)
(***************************************************************************)
\* lines 708-719: offset and small flags of one tag record
tag_offset(offset_and_flags, page_size) ==
    IF page_size <= MAX_SIZE_SMALL_PAGE THEN offset_and_flags % 8192
    ELSE offset_and_flags % 32768

tag_small_flags(offset_and_flags, page_size) ==
    IF page_size <= MAX_SIZE_SMALL_PAGE THEN (offset_and_flags \div 8192) * 8192
    ELSE HAS_EXTENDED_FLAGS + (offset_and_flags \div 32768) * 32768

RECURSIVE read_tags_offsets_flags(_, _, _, _)
\* the loop of lines 704-722 from stream position pos on
read_tags_offsets_flags(tagged_data_slice, pos, min_tagged_data_offset, page_size) ==
    IF ~(pos < min_tagged_data_offset) THEN Ok(<<>>)
    ELSE IF pos + 4 > Len(tagged_data_slice) THEN Err("Io")
    ELSE LET tag == U16At(tagged_data_slice, pos)
             oaf == U16At(tagged_data_slice, pos + 2)
             offset == tag_offset(oaf, page_size)
             rest == read_tags_offsets_flags(tagged_data_slice, pos + 4,
                         IF offset < min_tagged_data_offset THEN offset
                         ELSE min_tagged_data_offset, page_size)
         IN  IF ~IsOk(rest) THEN rest
             ELSE Ok(<<[tag |-> tag, offset |-> offset,
                        small_flags |-> tag_small_flags(oaf, page_size)]>> \o rest.val)

\* lines 726-732
tagged_item_slice(tags_offsets_flags, i, tagged_data_slice) ==
    LET begin == tags_offsets_flags[i].offset
        next_begin == IF i < Len(tags_offsets_flags) THEN tags_offsets_flags[i + 1].offset
                      ELSE Len(tagged_data_slice)
    IN  IF begin > next_begin \/ next_begin > Len(tagged_data_slice) THEN Panic
        ELSE Ok(Slice(tagged_data_slice, begin, next_begin))

\* lines 737-752: the entry's flags and the slice after the flag byte
tagged_flags(small_flags, item_slice) ==
    IF Has(small_flags, HAS_EXTENDED_FLAGS)
    THEN IF item_slice = <<>> THEN Panic
         ELSE Ok([flags |-> IF Has(small_flags, SMALL_DERIVED) /\ ~Has(item_slice[1], TAG_DERIVED)
                            THEN item_slice[1] + TAG_DERIVED ELSE item_slice[1],
                  item_slice |-> Tail(item_slice)])
    ELSE Ok([flags |-> from_small(small_flags), item_slice |-> item_slice])

\* lines 763-776: offsets, then the slices between neighbours
multi_slices(item_slice, first_value_offset) ==
    LET offsets == [k \in 1..(first_value_offset \div 2) |-> U16At(item_slice, 2 * (k - 1))]
                   \o <<Len(item_slice)>>
    IN  IF \E k \in 1..(Len(offsets) - 1) :
               offsets[k] > offsets[k + 1] \/ offsets[k + 1] > Len(item_slice)
        THEN Panic
        ELSE Ok([k \in 1..(Len(offsets) - 1) |-> Slice(item_slice, offsets[k], offsets[k + 1])])

\* lines 754-780
value_slices(flags, item_slice) ==
    IF Has(flags, TWO_VALUES)
    THEN IF item_slice = <<>> THEN Panic
         ELSE IF item_slice[1] > Len(item_slice) - 1 THEN Panic
         ELSE Ok(<<Slice(item_slice, 1, 1 + item_slice[1]),
                   Slice(item_slice, 1 + item_slice[1], Len(item_slice))>>)
    ELSE IF Has(flags, MULTI_VALUES)
    THEN IF Len(item_slice) < 2 THEN Panic
         ELSE LET first_value_offset == U16At(item_slice, 0)
              IN  IF first_value_offset > Len(item_slice) \/ first_value_offset % 2 = 1
                  THEN Panic
                  ELSE multi_slices(item_slice, first_value_offset)
    ELSE Ok(<<item_slice>>)

\* reference_bytes_to_value_number (lines 475-483) on at most 8 bytes (more
\* overflow usize); a number that does not fit 31 bits is beyond every tree
\* and is held as USIZE_MAX
reference_bytes_to_value_number(bytes) ==
    IF \E i \in 1..Len(bytes) : bytes[i] # 0 /\ (i > 4 \/ (i = 4 /\ bytes[i] >= 128))
    THEN USIZE_MAX
    ELSE LEToNat(bytes)

RECURSIVE decode_all(_, _, _)
\* lines 811-814: decode_string on every separated value
decode_all(separated_values, k, codepage) ==
    IF k > Len(separated_values) THEN Ok(<<>>)
    ELSE LET str == decode_string(separated_values[k], codepage)
             rest == decode_all(separated_values, k + 1, codepage)
         IN  IF ~IsOk(str) THEN str
             ELSE IF ~IsOk(rest) THEN rest
             ELSE Ok(<<Data("LongText", str.val)>> \o rest.val)

\* lines 802-810, 828-836: the walk of the long-value tree
separated_walk(t, sep_page_number, value_number) ==
    read_data_from_tree(t, sep_page_number, value_number, 1, <<>>, 0)

no_long_value_page_ignored(large_value_page_number) == FALSE

\* lines 796-798, 822-824: let Some(sep_page_number) = ... else
no_long_value_page(large_value_page_number) == ~large_value_page_number.some

\* lines 793-844: the values of one slice of a LongText / LongBinary column
long_values(column, flags, value_slice, t, large_value_page_number) ==
    IF ~Has(flags, SEPARATED)
    THEN IF column.column_type = "LongBinary"
         THEN [r |-> Ok(<<Data("LongBinary", value_slice)>>), tree_reads |-> 0]
         ELSE LET str == decode_string(value_slice, column.codepage)
              IN  [r |-> IF IsOk(str) THEN Ok(<<Data("LongText", str.val)>>) ELSE str,
                   tree_reads |-> 0]
    ELSE IF no_long_value_page(large_value_page_number)
    THEN [r |-> Err("SeparatedValueWithoutLongValueInfo"), tree_reads |-> 0]
    ELSE LET walk == separated_walk(t, large_value_page_number.v,
                                    reference_bytes_to_value_number(value_slice))
         IN  [r |-> IF walk.kind = "err" THEN Err(walk.err)
                    ELSE IF column.column_type = "LongBinary"
                    THEN Ok([k \in 1..Len(walk.out) |-> Data("LongBinary", walk.out[k])])
                    ELSE decode_all(walk.out, 1, column.codepage),
              tree_reads |-> 1]

\* lines 784-852: the values of one slice
slice_values(column, flags, value_slice, t, large_value_page_number) ==
    CASE column.column_type = "Long" ->
            [r |-> IF Len(value_slice) = 4 THEN Ok(<<Data("Long", value_slice)>>) ELSE Panic,
             tree_reads |-> 0]
      [] column.column_type = "Currency" ->
            [r |-> IF Len(value_slice) = 8 THEN Ok(<<Data("Currency", value_slice)>>) ELSE Panic,
             tree_reads |-> 0]
      [] column.column_type \in {"LongText", "LongBinary"} ->
            long_values(column, flags, value_slice, t, large_value_page_number)
      [] OTHER -> [r |-> Err("UnexpectedTaggedColumnDataType"), tree_reads |-> 0]

RECURSIVE entry_values(_, _, _, _, _, _, _, _)
\* the loop of lines 783-853 from slice j on
entry_values(column, flags, slices, j, t, large_value_page_number, values, tree_reads) ==
    IF j > Len(slices) THEN [r |-> Ok(values), tree_reads |-> tree_reads]
    ELSE LET sv == slice_values(column, flags, slices[j], t, large_value_page_number)
         IN  IF ~IsOk(sv.r) THEN [r |-> sv.r, tree_reads |-> tree_reads + sv.tree_reads]
             ELSE entry_values(column, flags, slices, j + 1, t, large_value_page_number,
                               values \o sv.r.val, tree_reads + sv.tree_reads)

tagged_value_always_multiple(values, flags) == Multiple(values, flags)

\* lines 859-869: the Value of a tagged column
tagged_value(values, flags) ==
    IF Len(values) = 1 THEN Complex(values[1], flags) ELSE Multiple(values, flags)

\* lines 736-869: one tagged entry of a schema column
tagged_entry(column, small_flags, raw_slice, t, large_value_page_number, map, tree_reads) ==
    LET fl == tagged_flags(small_flags, raw_slice)
        slices == value_slices(fl.val.flags, fl.val.item_slice)
        vals == entry_values(column, fl.val.flags, slices.val, 1, t,
                             large_value_page_number, <<>>, tree_reads)
    IN  IF ~IsOk(fl) THEN [r |-> fl, tree_reads |-> tree_reads]
        ELSE IF ~IsOk(slices) THEN [r |-> slices, tree_reads |-> tree_reads]
        ELSE IF ~IsOk(vals.r) THEN vals
        ELSE IF Has(fl.val.flags, SEPARATED)
                /\ column.column_type \notin {"LongText", "LongBinary"}
        THEN [r |-> Panic, tree_reads |-> vals.tree_reads]
        ELSE [r |-> Ok((column.column_id :> tagged_value(vals.r.val, fl.val.flags)) @@ map),
              tree_reads |-> vals.tree_reads]

RECURSIVE decode_tagged(_, _, _, _, _, _, _, _)
\* the loop of lines 725-870 from entry i on
decode_tagged(i, tags_offsets_flags, tagged_data_slice, tagged_columns, t, large_value_page_number, map, tree_reads) ==
    IF i > Len(tags_offsets_flags) THEN [r |-> Ok(map), tree_reads |-> tree_reads]
    ELSE LET item == tagged_item_slice(tags_offsets_flags, i, tagged_data_slice)
             column == ColumnsWithId(tagged_columns, tags_offsets_flags[i].tag)
         IN  IF ~IsOk(item) THEN [r |-> item, tree_reads |-> tree_reads]
             ELSE IF column = <<>>
             THEN decode_tagged(i + 1, tags_offsets_flags, tagged_data_slice, tagged_columns,
                                t, large_value_page_number, map, tree_reads)
             ELSE LET e == tagged_entry(column[1], tags_offsets_flags[i].small_flags,
                                        item.val, t, large_value_page_number, map, tree_reads)
                  IN  IF ~IsOk(e.r) THEN e
                      ELSE decode_tagged(i + 1, tags_offsets_flags, tagged_data_slice,
                                         tagged_columns, t, large_value_page_number,
                                         e.r.val, e.tree_reads)

\* lines 696-871
decode_tagged_region(data, tagged_start, tagged_columns, page_size, t, large_value_page_number, map) ==
    IF tagged_start > Len(data) THEN [r |-> Panic, tree_reads |-> 0]
    ELSE LET tagged_data_slice == Slice(data, tagged_start, Len(data))
             tags == read_tags_offsets_flags(tagged_data_slice, 0, USIZE_MAX, page_size)
         IN  IF tagged_data_slice = <<>> THEN [r |-> Ok(map), tree_reads |-> 0]
             ELSE IF ~IsOk(tags) THEN [r |-> tags, tree_reads |-> 0]
             ELSE decode_tagged(1, tags.val, tagged_data_slice, tagged_columns, t,
                                large_value_page_number, map, 0)

(***************************************************************************)
(* table.rs: decode_row.  The result is [r, tree_reads]: what decode_row   *)
(* returns and how often it walked the long-value tree.                    *)
(***************************************************************************)
Min(a, b) == IF a < b THEN a ELSE b

decode_row(t, row_data, columns, page_size, large_value_page_number) ==
    LET sorted_columns == sort_by_column_id(columns)
        fixed_columns == SelectSeq(sorted_columns, LAMBDA c : c.column_id < 128)
        variable_columns == SelectColumns(sorted_columns, 128, 256)
        tagged_columns == SelectSeq(sorted_columns, LAMBDA c : c.column_id >= 256)
        last_fixed_data_column == row_data[1]
        last_variable_data_column == row_data[2]
        end_fixed_values_offset == U16At(row_data, 2)
        variable_column_count == IF last_variable_data_column >= 128
                                 THEN last_variable_data_column + 1 - 128 ELSE 0
        nullity_byte_count == (last_fixed_data_column + 7) \div 8
        fixed_start == 4
        nullity_start == end_fixed_values_offset - nullity_byte_count
        variable_start == end_fixed_values_offset
        fixed_slice == Slice(row_data, fixed_start, nullity_start)
        nullity_slice == Slice(row_data, nullity_start, variable_start)
        variable_and_tagged_slice == Slice(row_data, variable_start, Len(row_data))
        fixed == decode_fixed(SubSeq(fixed_columns, 1,
                                     Min(last_fixed_data_column, Len(fixed_columns))),
                              1, 0, fixed_slice, nullity_slice, <<>>)
        variable_offsets ==
            read_variable_offsets(Slice(variable_and_tagged_slice, 0, 2 * variable_column_count),
                                  variable_column_count)
        data == Slice(variable_and_tagged_slice, 2 * variable_column_count,
                      Len(variable_and_tagged_slice))
        variable == decode_variable(1, variable_offsets, data, variable_columns, fixed.val)
    IN  IF Len(row_data) < 4 THEN [r |-> Err("Io"), tree_reads |-> 0]
        ELSE IF nullity_start < fixed_start \/ variable_start > Len(row_data)
        THEN [r |-> Panic, tree_reads |-> 0]
        ELSE IF ~IsOk(fixed) THEN [r |-> fixed, tree_reads |-> 0]
        ELSE IF 2 * variable_column_count > Len(variable_and_tagged_slice)
        THEN [r |-> Panic, tree_reads |-> 0]
        ELSE IF ~IsOk(variable) THEN [r |-> variable, tree_reads |-> 0]
        ELSE decode_tagged_region(data, variable_offsets[Len(variable_offsets)],
                                  tagged_columns, page_size, t, large_value_page_number,
                                  variable.val)

(***************************************************************************)
(* Row specification: decode_row on rows put together from a fixed, a      *)
(* variable and a tagged part, well-formed and not, against four schemas,  *)
(* with and without a long-value tree.                                     *)
(***************************************************************************)
\* schema A: every region, listed out of order
SchemaA == <<Column(256, "LongText", 0, 1252), Column(1, "Bit", 1, 1252),
             Column(2, "Short", 2, 1252), Column(128, "Binary", 0, 1252),
             Column(129, "Text", 0, 1252), Column(257, "LongBinary", 0, 1252),
             Column(258, "Long", 4, 1252)>>
\* schema B: no column 129
SchemaB == <<Column(1, "Bit", 1, 1252), Column(2, "Short", 2, 1252),
             Column(128, "Binary", 0, 1252), Column(256, "LongText", 0, 1252),
             Column(257, "LongBinary", 0, 1252)>>
\* schema C: a gap in the fixed ids, a UTF-16 text, no column 128, a Long
\* in the variable region
SchemaC == <<Column(1, "Bit", 1, 1252), Column(3, "Text", 2, 1200),
             Column(129, "Long", 4, 1252), Column(256, "LongText", 0, 1252)>>
\* schema D: a type the fixed region rejects
SchemaD == <<Column(1, "Nil", 0, 1252), Column(256, "LongText", 0, 1252)>>
\* schema E: the least column id there is
SchemaE == <<Column(256, "LongText", 0, 1252), Column(I32_MIN, "Bit", 1, 1252)>>
\* schema F: texts only, of a code page beyond 0xFFFF and in UTF-16
SchemaF == <<Column(128, "Text", 0, 70000), Column(129, "Text", 0, 1200)>>
Schemas == {SchemaA, SchemaB, SchemaC, SchemaD, SchemaE, SchemaF}

FixedPart(l, f, n) == [last_fixed |-> l, fixed |-> f, nullity |-> n]
FixedParts ==
    {FixedPart(0, <<>>, <<>>), FixedPart(1, <<1>>, <<0>>),
     FixedPart(2, <<255, 52, 18>>, <<0>>), FixedPart(2, <<255, 52, 18>>, <<1>>),
     FixedPart(2, <<255, 52, 18>>, <<2>>), FixedPart(2, <<7, 0, 216>>, <<4>>),
     FixedPart(2, <<7, 0, 216>>, <<3>>), FixedPart(2, <<255>>, <<1>>)}

\* end offsets (absent: + 32768) and the bytes they cut up
VariablePart(l, o, d) == [last_variable |-> l, offsets |-> o, data |-> d]
VariableParts ==
    {VariablePart(0, <<>>, <<>>), VariablePart(128, <<2>>, <<97, 98>>),
     VariablePart(129, <<2, 5>>, <<97, 98, 99, 100, 101>>),
     VariablePart(129, <<32768, 3>>, <<97, 98, 99>>),
     VariablePart(129, <<3, 1>>, <<97, 98, 99>>),
     VariablePart(129, <<2, 32770>>, <<97, 98>>)}

\* tag records (column id, offset and flags) and the entries' bytes
TaggedParts ==
    {<<>>,
     <<0, 1, 4, 0>> \o <<104, 105>>,                      \* 256: "hi"
     <<0, 1, 4, 64>> \o <<5, 1, 0, 0, 0>>,                \* 256: SEPARATED, value 1
     <<1, 1, 4, 64>> \o <<5, 0, 0, 0, 0>>,                \* 257: SEPARATED, value 0
     <<2, 1, 4, 64>> \o <<5, 1, 0, 0, 0>>,                \* 258: SEPARATED on a Long
     <<44, 1, 4, 0>> \o <<120>>,                          \* 300: not in any schema
     <<0, 1, 8, 0, 1, 1, 10, 64>> \o <<104, 105>> \o <<13, 0, 0>>,
                                \* 256: "hi"; 257: SEPARATED, MULTI_VALUES, no value
     <<0, 1, 4, 64>> \o <<16, 1, 97, 98>>,                \* 256: TWO_VALUES
     <<0, 1, 4, 64>> \o <<13, 4, 0, 8, 0, 0, 0, 0, 0, 1, 0, 0, 0>>,
                                \* 256: SEPARATED, MULTI_VALUES, values 0 and 1
     <<0, 1, 4, 64>> \o <<16, 5, 97>>,       \* 256: TWO_VALUES, length 5 of 1 byte
     <<0, 1, 8, 64, 2, 1, 12, 64>> \o <<24, 1, 97, 98>> \o <<16, 4, 10, 0, 0, 0, 20, 0, 0, 0>>,
                                \* 256: TWO_VALUES and MULTI_VALUES; 258: TWO_VALUES
     <<0, 1, 8, 64, 1, 1, 16, 64>> \o <<8, 4, 0, 6, 0, 97, 98, 99>> \o <<8, 2, 0, 97>>,
                                \* 256: MULTI_VALUES, two values; 257: MULTI_VALUES, one
     <<0, 1, 4, 64>> \o <<8, 3, 0, 97>>}                 \* 256: MULTI_VALUES, odd offset

Row(fp, vp, tp) ==
    <<fp.last_fixed, vp.last_variable>>
    \o NatToLE(4 + Len(fp.fixed) + Len(fp.nullity), 2)
    \o fp.fixed \o fp.nullity
    \o [k \in 1..(2 * Len(vp.offsets)) |-> NatToLE(vp.offsets[(k + 1) \div 2], 2)[2 - (k % 2)]]
    \o vp.data \o tp

\* the key of the chunks of long value v
LongValueKey(v) == <<0, 0, 0, v>>

Foo == <<102, 111, 111>>
Bar == <<98, 97, 114>>
Baz == <<98, 97, 122>>

\* one leaf page: long value 0 in two chunks, long value 1 in one
LongValueTree1 ==
    <<[leaf |-> TRUE, tags |-> <<HeaderTag, LeafEntry(LongValueKey(0), Foo),
                                 LeafEntry(LongValueKey(0), Bar),
                                 LeafEntry(LongValueKey(1), Baz)>>]>>
\* a branch page over two leaf pages: long value 1 in two chunks
LongValueTree2 ==
    <<[leaf |-> FALSE, tags |-> <<HeaderTag, BranchEntry(2), BranchEntry(3)>>],
      [leaf |-> TRUE, tags |-> <<HeaderTag, LeafEntry(LongValueKey(1), Foo)>>],
      [leaf |-> TRUE, tags |-> <<HeaderTag, LeafEntry(LongValueKey(1), Bar)>>]>>
\* long value 0 in one chunk, long value 1 in one chunk
LongValueTree3 ==
    <<[leaf |-> TRUE, tags |-> <<HeaderTag, LeafEntry(LongValueKey(0), Foo),
                                 LeafEntry(LongValueKey(1), Bar)>>]>>
LongValueTrees == {LongValueTree1, LongValueTree2, LongValueTree3}

\* the table has no long-value page, has one at page 1, or names page 7,
\* which the stream does not hold
LongValuePages == {None, Some(1), Some(7)}

\* the two page sizes, under the later format revision
RowHeaders == {h \in Headers : h.format_revision = <<17, 0, 0, 0>>}

InitRow ==
    /\ overflow_checks \in BOOLEAN
    /\ file = EmptyFile
    /\ header \in RowHeaders
    /\ tree \in LongValueTrees
    /\ call = NoCall
    /\ ret = NoRet

\* read_table_from_pages line 935: one raw row is decoded
DecodeRow ==
    /\ call.op = "none"
    /\ \E columns \in Schemas, fp \in FixedParts, vp \in VariableParts, tp \in TaggedParts,
          large_value_page_number \in LongValuePages :
          /\ call' = [op |-> "decode_row", row_data |-> Row(fp, vp, tp),
                      columns |-> columns, page_size |-> header.page_size,
                      large_value_page_number |-> large_value_page_number]
          /\ ret' = decode_row(tree, Row(fp, vp, tp), columns, header.page_size,
                               large_value_page_number)
    /\ UNCHANGED <<overflow_checks, file, header, tree>>

NextRow == DecodeRow

SpecRow == InitRow /\ [][NextRow]_vars

(***************************************************************************)
(* The layout of a row, read off its bytes.                                *)
(***************************************************************************)
EndFixed(row) == U16At(row, 2)
NullityCount(row) == (row[1] + 7) \div 8
VarCount(row) == IF row[2] >= 128 THEN row[2] - 127 ELSE 0

\* the row holds its header, its fixed region and its variable offsets
RowHasRegions(row) ==
    /\ Len(row) >= 4
    /\ EndFixed(row) - NullityCount(row) >= 4
    /\ EndFixed(row) + 2 * VarCount(row) <= Len(row)

NullityIndex(row, id) == EndFixed(row) - NullityCount(row) + ((id - 1) \div 8) + 1

NullBitSet(row, id) ==
    /\ RowHasRegions(row)
    /\ (id - 1) \div 8 < NullityCount(row)
    /\ Has(row[NullityIndex(row, id)], 2 ^ ((id - 1) % 8))

ClearNullBit(row, id) ==
    [row EXCEPT ![NullityIndex(row, id)] = @ - 2 ^ ((id - 1) % 8)]

\* the end offset of the i-th variable column (i = 1 is column 128)
VarEnd(row, i) == IF i = 0 THEN 0 ELSE U16At(row, EndFixed(row) + 2 * (i - 1))
VarData(row) == Slice(row, EndFixed(row) + 2 * VarCount(row), Len(row))
RawSlice(row, i) == Slice(VarData(row), VarEnd(row, i - 1) % 32768, VarEnd(row, i) % 32768)

InSchema(columns, id) == \E k \in 1..Len(columns) : columns[k].column_id = id
SchemaColumn(columns, id) == columns[CHOOSE k \in 1..Len(columns) : columns[k].column_id = id]

\* the variable columns that are present and not in the schema
PresentUnknown(row, columns) ==
    {i \in 1..VarCount(row) : VarEnd(row, i) < 32768 /\ ~InSchema(columns, 127 + i)}

\* nothing but variable columns, absent or unknown, their offsets in order
\* and inside the row
UnknownVariableColumnsOnly(row, columns) ==
    /\ RowHasRegions(row) /\ row[1] = 0 /\ VarCount(row) > 0
    /\ \A i \in 1..VarCount(row) :
          /\ VarEnd(row, i) >= 32768 \/ ~InSchema(columns, 127 + i)
          /\ VarEnd(row, i - 1) % 32768 <= VarEnd(row, i) % 32768
    /\ VarEnd(row, VarCount(row)) = Len(VarData(row))

\* the tagged region and its entries
TaggedSlice(row) ==
    LET start == VarEnd(row, VarCount(row)) % 32768
    IN  IF RowHasRegions(row) /\ start <= Len(VarData(row))
        THEN Slice(VarData(row), start, Len(VarData(row))) ELSE <<>>

RowTags(row, page_size) ==
    LET r == read_tags_offsets_flags(TaggedSlice(row), 0, USIZE_MAX, page_size)
    IN  IF TaggedSlice(row) # <<>> /\ IsOk(r) THEN r.val ELSE <<>>

\* flags and value bytes of the i-th tagged entry; no flags if it is cut off
RowEntry(row, page_size, i) ==
    LET item == tagged_item_slice(RowTags(row, page_size), i, TaggedSlice(row))
        fl == tagged_flags(RowTags(row, page_size)[i].small_flags, item.val)
    IN  IF IsOk(item) /\ IsOk(fl) THEN fl.val ELSE [flags |-> 0, item_slice |-> <<>>]

LongTypes == {"LongText", "LongBinary"}

\* the tagged entries of LongText / LongBinary schema columns marked SEPARATED
SeparatedLongEntries(row, columns, page_size) ==
    {i \in 1..Len(RowTags(row, page_size)) :
        /\ InSchema(columns, RowTags(row, page_size)[i].tag)
        /\ SchemaColumn(columns, RowTags(row, page_size)[i].tag).column_type \in LongTypes
        /\ Has(RowEntry(row, page_size, i).flags, SEPARATED)}

\* the chunks the long-value tree holds for value number v, in order
ChunksOf(t, root_page, v) ==
    LET mine == SelectSeq(InOrderFrom(t, root_page, 2),
                          LAMBDA e : e.local_page_key = LongValueKey(v))
    IN  [k \in 1..Len(mine) |-> mine[k].entry_data]

ChunkValues(column, chunks) ==
    [k \in 1..Len(chunks) |->
        Data(column.column_type,
             IF column.column_type = "LongText" THEN windows_1252_decode(chunks[k])
             ELSE chunks[k])]

\* C7: decoding a tagged LongText/LongBinary entry marked SEPARATED with
\* value number V yields one value per chunk that the long-value tree holds
\* for V, in order.
C7_OneValuePerChunk ==
    (call.op = "decode_row" /\ call.large_value_page_number.some /\ IsOk(ret.r)) =>
        \A i \in SeparatedLongEntries(call.row_data, call.columns, call.page_size) :
            LET e == RowEntry(call.row_data, call.page_size, i)
                column == SchemaColumn(call.columns,
                                       RowTags(call.row_data, call.page_size)[i].tag)
            IN  (~Has(e.flags, MULTI_VALUES) /\ ~Has(e.flags, TWO_VALUES)) =>
                    ret.r.val[column.column_id].values =
                        ChunkValues(column, ChunksOf(tree, call.large_value_page_number.v,
                                                     LEToNat(e.item_slice)))

\* C8 as claimed: without a long-value page number, every row that holds a
\* SEPARATED entry of a LongText/LongBinary schema column fails with
\* SeparatedValueWithoutLongValueInfo, and the tree is not read.
C8_EverySeparatedRowFails ==
    (/\ call.op = "decode_row" /\ ~call.large_value_page_number.some
     /\ SeparatedLongEntries(call.row_data, call.columns, call.page_size) # {})
        => (IsErr(ret.r, "SeparatedValueWithoutLongValueInfo") /\ ret.tree_reads = 0)

\* C8 as amended: without a long-value page number decode_row never reads
\* the long-value tree and never returns a value for a SEPARATED entry of a
\* LongText/LongBinary column (an entry without a value slice gives an empty
\* Multiple); a row whose first part to decode is such an entry with a value
\* slice fails with SeparatedValueWithoutLongValueInfo.
C8_NoValueWithoutLongValuePage ==
    (call.op = "decode_row" /\ ~call.large_value_page_number.some) =>
        /\ ret.tree_reads = 0
        /\ IsOk(ret.r) =>
              \A id \in DOMAIN ret.r.val :
                  (/\ id >= 256
                   /\ SchemaColumn(call.columns, id).column_type \in LongTypes
                   /\ Has(ret.r.val[id].flags, SEPARATED))
                      => ret.r.val[id] = Multiple(<<>>, ret.r.val[id].flags)
        /\ (/\ 1 \in SeparatedLongEntries(call.row_data, call.columns, call.page_size)
            /\ call.row_data[1] = 0 /\ call.row_data[2] = 0
            /\ ~Has(RowEntry(call.row_data, call.page_size, 1).flags, MULTI_VALUES)
            /\ ~Has(RowEntry(call.row_data, call.page_size, 1).flags, TWO_VALUES))
              => IsErr(ret.r, "SeparatedValueWithoutLongValueInfo")

\* fixed and variable columns decoded, then the separated entry refused
C8_SeparatedRefusedAfterOtherColumns ==
    /\ call.op = "decode_row" /\ ~call.large_value_page_number.some
    /\ call.row_data[1] = 2 /\ call.row_data[2] = 129
    /\ SeparatedLongEntries(call.row_data, call.columns, call.page_size) # {}
    /\ IsErr(ret.r, "SeparatedValueWithoutLongValueInfo")
    /\ ret.tree_reads = 0

\* C9: for every fixed column that decode_row emits, if its nullity bit is
\* set the emitted value is Simple(Nil) whatever the column's bytes are, and
\* the bytes are still consumed: with the bit cleared the same row decodes
\* to the same values for every other column and to a typed value for this one.
C9_NullFixedColumnIsNil ==
    (call.op = "decode_row" /\ IsOk(ret.r)) =>
        \A id \in DOMAIN ret.r.val :
            (id >= 1 /\ id < 128 /\ NullBitSet(call.row_data, id)) =>
                LET clear == decode_row(tree, ClearNullBit(call.row_data, id), call.columns,
                                        call.page_size, call.large_value_page_number)
                IN  /\ ret.r.val[id] = Simple(Nil)
                    /\ IsOk(clear.r)
                    /\ DOMAIN clear.r.val = DOMAIN ret.r.val
                    /\ clear.r.val[id].values[1].t = SchemaColumn(call.columns, id).column_type
                    /\ \A other \in DOMAIN ret.r.val \ {id} :
                          clear.r.val[other] = ret.r.val[other]

\* column 1 is null, column 2 after it is decoded from its own bytes
C9_NullColumnBeforeDecodedColumn ==
    /\ call.op = "decode_row" /\ IsOk(ret.r)
    /\ NullBitSet(call.row_data, 1)
    /\ {1, 2} \subseteq DOMAIN ret.r.val
    /\ ret.r.val[1] = Simple(Nil)
    /\ ret.r.val[2] = Simple(Data("Short", <<52, 18>>))

UnknownTaggedEntries(row, columns, page_size) ==
    {i \in 1..Len(RowTags(row, page_size)) :
        ~InSchema(columns, RowTags(row, page_size)[i].tag)}

\* C11: for every tagged entry of a row that decode_row decodes, the result
\* holds the entry's column id: with values typed per the schema if the id
\* is in the schema, with the entry's data as Binary if it is not.
C11_EveryTaggedEntryInResult ==
    (call.op = "decode_row" /\ IsOk(ret.r)) =>
        \A i \in 1..Len(RowTags(call.row_data, call.page_size)) :
            LET id == RowTags(call.row_data, call.page_size)[i].tag
            IN  /\ id \in DOMAIN ret.r.val
                /\ IF InSchema(call.columns, id)
                   THEN \A k \in 1..Len(ret.r.val[id].values) :
                           ret.r.val[id].values[k].t =
                               SchemaColumn(call.columns, id).column_type
                   ELSE /\ Len(ret.r.val[id].values) = 1
                        /\ ret.r.val[id].values[1].t = "Binary"

\* the fixed-region columns decode_row reads: the first last_fixed_data_column
\* schema columns of an id below 128
TakenFixed(row, columns) ==
    LET sorted == sort_by_column_id(columns)
        fixed_columns == SelectSeq(sorted, LAMBDA c : c.column_id < 128)
    IN  {fixed_columns[k].column_id : k \in 1..Min(row[1], Len(fixed_columns))}

\* C12: in every map decode_row returns, a key in [1,128) holds a Simple
\* value of a fixed-region column, a key in [128,256) a Simple value of a
\* present variable-region entry, a key >= 256 a Complex or Multiple value of
\* a tagged entry; no key lies outside the three ranges.
C12_KeysPartitionByRegion ==
    (call.op = "decode_row" /\ IsOk(ret.r)) =>
        \A id \in DOMAIN ret.r.val :
            \/ /\ id >= 1 /\ id < 128
               /\ ret.r.val[id].kind = "Simple"
               /\ id \in TakenFixed(call.row_data, call.columns)
            \/ /\ id >= 128 /\ id < 256
               /\ ret.r.val[id].kind = "Simple"
               /\ id - 127 <= VarCount(call.row_data)
               /\ VarEnd(call.row_data, id - 127) < 32768
            \/ /\ id >= 256
               /\ ret.r.val[id].kind \in {"Complex", "Multiple"}
               /\ \E i \in 1..Len(RowTags(call.row_data, call.page_size)) :
                     RowTags(call.row_data, call.page_size)[i].tag = id

\* the types the fixed region rejects (lines 546-552)
FixedRejectedTypes == {"Nil", "LongBinary", "LongText", "SuperLongValue", "Other"}

\* the present variable entries whose schema column is neither Text nor Binary
PresentDisallowed(row, columns) ==
    {i \in 1..VarCount(row) :
        /\ VarEnd(row, i) < 32768
        /\ InSchema(columns, 127 + i)
        /\ SchemaColumn(columns, 127 + i).column_type \notin {"Text", "Binary"}}

\* C13: a row without fixed columns that holds a present variable-region
\* entry of a schema column that is neither Text nor Binary does not decode,
\* and the error it returns is UnexpectedVariableColumnDataType; only a
\* schema with a fixed-region column of a rejected type gives
\* UnexpectedFixedColumnDataType.
C13_EachRegionItsOwnErrorKind ==
    call.op = "decode_row" =>
        /\ (/\ RowHasRegions(call.row_data) /\ call.row_data[1] = 0
            /\ PresentDisallowed(call.row_data, call.columns) # {})
              => /\ ~IsOk(ret.r)
                 /\ ret.r.kind = "err" => ret.r.err = "UnexpectedVariableColumnDataType"
        /\ IsErr(ret.r, "UnexpectedFixedColumnDataType") =>
              \E k \in 1..Len(call.columns) :
                  /\ call.columns[k].column_id < 128
                  /\ call.columns[k].column_type \in FixedRejectedTypes

\* the tagged entries of a schema column that is not LongText / LongBinary,
\* marked SEPARATED
SeparatedOtherEntries(row, columns, page_size) ==
    {i \in 1..Len(RowTags(row, page_size)) :
        /\ InSchema(columns, RowTags(row, page_size)[i].tag)
        /\ SchemaColumn(columns, RowTags(row, page_size)[i].tag).column_type \notin LongTypes
        /\ Has(RowEntry(row, page_size, i).flags, SEPARATED)}

\* C14: a row of nothing but a tagged entry marked SEPARATED whose schema
\* column is not LongText / LongBinary makes decode_row return the error
\* UnexpectedTaggedColumnDataType; no row that holds such an entry makes
\* decode_row panic at the entry.
C14_SeparatedOtherTypeIsAnError ==
    (/\ call.op = "decode_row"
     /\ call.row_data[1] = 0 /\ call.row_data[2] = 0
     /\ 1 \in SeparatedOtherEntries(call.row_data, call.columns, call.page_size))
        => IsErr(ret.r, "UnexpectedTaggedColumnDataType")

\* the texts of the variable region of a row whose windows all lie in the
\* data: the bytes and the code page of each present Text column
VariableTexts(row_data, columns) ==
    LET count == IF row_data[2] >= 128 THEN row_data[2] + 1 - 128 ELSE 0
        start == U16At(row_data, 2)
        offsets == read_variable_offsets(Slice(row_data, start, start + 2 * count), count)
        data == Slice(row_data, start + 2 * count, Len(row_data))
    IN  IF \E i \in 1..count : /\ offsets[i + 1] < 32768
                               /\ \/ offsets[i] % 32768 > offsets[i + 1]
                                  \/ offsets[i + 1] > Len(data)
        THEN {}
        ELSE {<<Slice(data, offsets[i] % 32768, offsets[i + 1]), columns[k].codepage>> :
                 <<i, k>> \in {p \in (1..count) \X (1..Len(columns)) :
                                  /\ offsets[p[1] + 1] < 32768
                                  /\ columns[p[2]].column_id = 127 + p[1]
                                  /\ columns[p[2]].column_type = "Text"}}

\* text the claim says is not accepted: UTF-16 of odd length or with an
\* unpaired surrogate, a code page outside 1..0xFFFF
InvalidText(bytes, codepage) ==
    \/ codepage = 1200 /\ Len(bytes) % 2 = 1
    \/ codepage = 1200 /\ ~IsOk(from_utf16([k \in 1..(Len(bytes) \div 2) |->
                                               U16At(bytes, 2 * (k - 1))], 1))
    \/ codepage < 1 \/ codepage > 65535

\* C19: text decoding never accepts invalid input silently: a text of code
\* page 1200 and odd length, of a code page outside 0 < cp <= 0xFFFF, or
\* malformed makes decode_row return an error result; it neither aborts
\* nor returns a shortened or substituted string.  Stated for rows of a
\* schema without fixed columns, whose first failure can only be a text.
C19_InvalidTextIsAnError ==
    (/\ call.op = "decode_row"
     /\ \A k \in 1..Len(call.columns) : call.columns[k].column_id >= 128
     /\ \E text \in VariableTexts(call.row_data, call.columns) :
           InvalidText(text[1], text[2]))
        => ret.r.kind = "err"

\* the three bytes 97, 98, 99 of a UTF-16 text are returned as the one
\* character U+6261
C19_OddLengthTextShortened ==
    /\ call.op = "decode_row"
    /\ call.columns = SchemaF
    /\ VariableTexts(call.row_data, call.columns) = {<<<<97, 98, 99>>, 1200>>}
    /\ IsOk(ret.r)
    /\ ret.r.val[129] = Simple(Data("Text", <<25185>>))

\* the schema columns of the fixed region whose id is at most the row's
\* last_fixed_data_column
FixedIdsUpToLast(row, columns) ==
    {columns[k].column_id : k \in {j \in 1..Len(columns) :
                                      /\ columns[j].column_id < 128
                                      /\ columns[j].column_id <= row[1]}}

\* C21: decode_row emits a fixed-region value for exactly the schema columns
\* whose id is below 128 and at most last_fixed_data_column (byte 0 of the
\* row); a column of a greater id is never decoded from the fixed region,
\* also when the fixed column ids of the schema have gaps.  Stated for
\* schemas whose column ids are all positive.
C21_FixedValuesUpToLastFixedId ==
    (/\ call.op = "decode_row" /\ IsOk(ret.r)
     /\ \A k \in 1..Len(call.columns) : call.columns[k].column_id >= 1) =>
        {id \in DOMAIN ret.r.val : id < 128} = FixedIdsUpToLast(call.row_data, call.columns)

\* without gaps in the ids, the columns taken are those of an id up to
\* last_fixed_data_column
C21_FixedValuesWithoutGaps ==
    (/\ call.op = "decode_row" /\ IsOk(ret.r)
     /\ \A k \in 1..Len(call.columns) : call.columns[k].column_id >= 1
     /\ \A id \in TakenFixed(call.row_data, call.columns) :
           \A below \in 1..(id - 1) : InSchema(call.columns, below))
        => {id \in DOMAIN ret.r.val : id < 128} = FixedIdsUpToLast(call.row_data, call.columns)

\* schema C (fixed ids 1 and 3), last_fixed_data_column = 2: column 3 is
\* decoded from the bytes after column 1
C21_Column3DecodedWithLastFixed2 ==
    /\ call.op = "decode_row"
    /\ call.columns = SchemaC
    /\ call.row_data[1] = 2
    /\ IsOk(ret.r)
    /\ 3 \in DOMAIN ret.r.val
    /\ ret.r.val[3] = Simple(Data("Text", <<U16At(call.row_data, 5)>>))

\* the value a slice of a tagged entry not marked SEPARATED decodes to
DecodedAs(column, bytes) ==
    Data(column.column_type,
         IF column.column_type = "LongText" THEN decode_string(bytes, column.codepage).val
         ELSE bytes)

\* the first tagged entry of a row without fixed and variable columns is an
\* entry of a schema column whose flags hold the bit
FirstEntryHas(bit) ==
    /\ call.op = "decode_row"
    /\ call.row_data[1] = 0 /\ call.row_data[2] = 0
    /\ RowTags(call.row_data, call.page_size) # <<>>
    /\ InSchema(call.columns, RowTags(call.row_data, call.page_size)[1].tag)
    /\ Has(RowEntry(call.row_data, call.page_size, 1).flags, bit)

FirstEntry == RowEntry(call.row_data, call.page_size, 1)
FirstEntryId == RowTags(call.row_data, call.page_size)[1].tag
FirstEntryColumn == SchemaColumn(call.columns, FirstEntryId)

\* the two values of the first entry: the first byte is the length of the
\* first, the rest after it is the second
TwoValuesOf(column, item_slice) ==
    <<DecodedAs(column, Slice(item_slice, 1, 1 + item_slice[1])),
      DecodedAs(column, Slice(item_slice, 1 + item_slice[1], Len(item_slice)))>>

\* C22: for a tagged entry whose flags include TWO_VALUES, decode_row takes
\* the first byte after the flag byte as length L, decodes the next L bytes
\* as the first value and the remaining bytes as the second, and returns
\* Multiple with exactly these two values in this order, also when
\* MULTI_VALUES is set as well.  Stated for the first entry of a row.
C22_TwoValuesEntryIsMultiple ==
    FirstEntryHas(TWO_VALUES) =>
        /\ IsOk(ret.r)
        /\ FirstEntryId \in DOMAIN ret.r.val
        /\ ret.r.val[FirstEntryId] =
               Multiple(TwoValuesOf(FirstEntryColumn, FirstEntry.item_slice), FirstEntry.flags)

\* where the length byte is there and no greater than the bytes after it,
\* and the column is a LongText or LongBinary not marked SEPARATED, the
\* entry is returned as the claim says
C22_TwoValuesWithinSlice ==
    (/\ FirstEntryHas(TWO_VALUES)
     /\ FirstEntry.item_slice # <<>>
     /\ FirstEntry.item_slice[1] <= Len(FirstEntry.item_slice) - 1
     /\ FirstEntryColumn.column_type \in LongTypes
     /\ ~Has(FirstEntry.flags, SEPARATED)
     /\ IsOk(ret.r))
        => /\ FirstEntryId \in DOMAIN ret.r.val
           /\ ret.r.val[FirstEntryId] =
                  Multiple(TwoValuesOf(FirstEntryColumn, FirstEntry.item_slice),
                           FirstEntry.flags)

\* TWO_VALUES and MULTI_VALUES together are read as TWO_VALUES
C22_TwoValuesBeforeMultiValues ==
    /\ FirstEntryHas(TWO_VALUES)
    /\ Has(FirstEntry.flags, MULTI_VALUES)
    /\ IsOk(ret.r)
    /\ ret.r.val[256] = Multiple(<<Data("LongText", <<97>>), Data("LongText", <<98>>)>>, 24)

\* the length byte 5 before one byte: decode_row aborts
C22_LengthBeyondSliceAborts ==
    /\ FirstEntryHas(TWO_VALUES)
    /\ FirstEntry.item_slice = <<5, 97>>
    /\ ret.r = Panic

\* the spec's example R4: column 258 (Long), flag byte 0x10, slice
\* 04 0A 00 00 00 14 00 00 00
C22_ExampleR4 ==
    /\ call.op = "decode_row"
    /\ call.columns = SchemaA
    /\ IsOk(ret.r)
    /\ 258 \in DOMAIN ret.r.val
    /\ ret.r.val[258] = Multiple(<<Data("Long", <<10, 0, 0, 0>>),
                                   Data("Long", <<20, 0, 0, 0>>)>>, TWO_VALUES)

\* the offsets of a MULTI_VALUES entry: the u16s of the prefix [0, F), F the
\* first of them, and the length of the slice as the last
MultiOffsets(item_slice) ==
    [k \in 1..(U16At(item_slice, 0) \div 2) |-> U16At(item_slice, 2 * (k - 1))]
    \o <<Len(item_slice)>>

\* the bytes between the k-th and the (k+1)-th offset
MultiBytes(item_slice, k) ==
    Slice(item_slice, MultiOffsets(item_slice)[k], MultiOffsets(item_slice)[k + 1])

RECURSIVE ConcatBytes(_, _)
ConcatBytes(values, k) ==
    IF k > Len(values) THEN <<>> ELSE values[k].v \o ConcatBytes(values, k + 1)

\* the prefix of offsets lies in the slice, is a whole number of u16s, and
\* the offsets ascend to the length of the slice
MultiWellFormed(item_slice) ==
    /\ Len(item_slice) >= 2
    /\ U16At(item_slice, 0) % 2 = 0
    /\ U16At(item_slice, 0) <= Len(item_slice)
    /\ \A k \in 1..(Len(MultiOffsets(item_slice)) - 1) :
          MultiOffsets(item_slice)[k] <= MultiOffsets(item_slice)[k + 1]

FirstEntryIsMulti ==
    /\ FirstEntryHas(MULTI_VALUES)
    /\ ~Has(FirstEntry.flags, TWO_VALUES)
    /\ ~Has(FirstEntry.flags, SEPARATED)

\* C23: for a tagged entry whose flags include MULTI_VALUES and not
\* TWO_VALUES, with F the first little-endian u16 of the slice, decode_row
\* produces exactly F/2 values, value k being the bytes between the k-th and
\* the (k+1)-th u16 offset of the prefix [0, F), the slice length being the
\* last offset.  Stated for the first entry of a row, not marked SEPARATED.
C23_MultiValuesByOffsets ==
    FirstEntryIsMulti =>
        /\ IsOk(ret.r)
        /\ FirstEntryId \in DOMAIN ret.r.val
        /\ Len(ret.r.val[FirstEntryId].values) = U16At(FirstEntry.item_slice, 0) \div 2
        /\ \A k \in 1..Len(ret.r.val[FirstEntryId].values) :
              ret.r.val[FirstEntryId].values[k] =
                  DecodedAs(FirstEntryColumn, MultiBytes(FirstEntry.item_slice, k))

\* for a well-formed prefix of a LongBinary or LongText entry the values are
\* those of the claim, and they concatenate to what the bytes of the slice
\* from F to its end decode to
C23_WellFormedMultiValuesByOffsets ==
    (/\ FirstEntryIsMulti
     /\ MultiWellFormed(FirstEntry.item_slice)
     /\ FirstEntryColumn.column_type \in LongTypes
     /\ IsOk(ret.r))
        => /\ FirstEntryId \in DOMAIN ret.r.val
           /\ Len(ret.r.val[FirstEntryId].values) = U16At(FirstEntry.item_slice, 0) \div 2
           /\ \A k \in 1..Len(ret.r.val[FirstEntryId].values) :
                 ret.r.val[FirstEntryId].values[k] =
                     DecodedAs(FirstEntryColumn, MultiBytes(FirstEntry.item_slice, k))
           /\ ConcatBytes(ret.r.val[FirstEntryId].values, 1) =
                  DecodedAs(FirstEntryColumn,
                            Slice(FirstEntry.item_slice, U16At(FirstEntry.item_slice, 0),
                                  Len(FirstEntry.item_slice))).v

\* F = 3: the last chunk of the prefix is one byte and decode_row aborts
C23_OddFirstOffsetAborts ==
    /\ FirstEntryIsMulti
    /\ FirstEntry.item_slice = <<3, 0, 97>>
    /\ ret.r = Panic

\* F = 4, offsets 4 and 6, seven bytes: the values are bytes 4..5 and byte 6
C23_TwoValuesOfTwoOffsets ==
    /\ FirstEntryIsMulti
    /\ FirstEntry.item_slice = <<4, 0, 6, 0, 97, 98, 99>>
    /\ IsOk(ret.r)
    /\ ret.r.val[256] = Multiple(<<Data("LongText", <<97, 98>>), Data("LongText", <<99>>)>>,
                                 MULTI_VALUES)

\* the values the i-th tagged entry of the call's row decodes to
EntryValues(i) ==
    LET e == RowEntry(call.row_data, call.page_size, i)
        column == SchemaColumn(call.columns, RowTags(call.row_data, call.page_size)[i].tag)
    IN  entry_values(column, e.flags, value_slices(e.flags, e.item_slice).val, 1, tree,
                     call.large_value_page_number, <<>>, 0).r.val

\* the tagged entries of schema columns, the last of each column id
SchemaEntries ==
    {i \in 1..Len(RowTags(call.row_data, call.page_size)) :
        /\ InSchema(call.columns, RowTags(call.row_data, call.page_size)[i].tag)
        /\ \A j \in (i + 1)..Len(RowTags(call.row_data, call.page_size)) :
              RowTags(call.row_data, call.page_size)[j].tag
                  # RowTags(call.row_data, call.page_size)[i].tag}

\* C24: for every tagged column in the result of decode_row the value is
\* Complex exactly when the entry decoded to exactly one value, and Multiple
\* holding all decoded values in order when it decoded to several; the
\* values of fixed and variable columns (ids below 256) are always Simple.
C24_ComplexForOneMultipleForSeveral ==
    (call.op = "decode_row" /\ IsOk(ret.r)) =>
        /\ \A id \in DOMAIN ret.r.val : id < 256 => ret.r.val[id].kind = "Simple"
        /\ \A i \in SchemaEntries :
              LET id == RowTags(call.row_data, call.page_size)[i].tag
              IN  /\ id \in DOMAIN ret.r.val
                  /\ ret.r.val[id].kind = "Complex" <=> Len(EntryValues(i)) = 1
                  /\ ret.r.val[id].kind \in {"Complex", "Multiple"}
                  /\ ret.r.val[id].values = EntryValues(i)
                  /\ ret.r.val[id].flags = RowEntry(call.row_data, call.page_size, i).flags

\* one row whose result holds a Simple fixed value, a Multiple of two values
\* (column 256) and a Complex of one (column 257)
C24_SimpleMultipleAndComplexInOneRow ==
    /\ call.op = "decode_row"
    /\ IsOk(ret.r)
    /\ SchemaEntries = {1, 2}
    /\ Len(EntryValues(1)) = 2 /\ Len(EntryValues(2)) = 1
    /\ {1, 256, 257} \subseteq DOMAIN ret.r.val
    /\ ret.r.val[1].kind = "Simple"
    /\ ret.r.val[256] = Multiple(<<Data("LongText", <<97, 98>>), Data("LongText", <<99>>)>>,
                                 MULTI_VALUES)
    /\ ret.r.val[257] = Complex(Data("LongBinary", <<97>>), MULTI_VALUES)

\* the last variable column of the row is marked absent
LastVariableAbsent(row) ==
    /\ RowHasRegions(row)
    /\ VarCount(row) > 0
    /\ VarEnd(row, VarCount(row)) >= 32768

\* every present variable column has its window in the data, and its text,
\* if it is one, is valid
VariableWindowsInData(row, columns) ==
    /\ \A i \in 1..VarCount(row) :
          VarEnd(row, i) < 32768 =>
              /\ VarEnd(row, i - 1) % 32768 <= VarEnd(row, i)
              /\ VarEnd(row, i) <= Len(VarData(row))
    /\ \A text \in VariableTexts(row, columns) : ~InvalidText(text[1], text[2])

\* C29: decode_row locates the tagged region at the end offset of the last
\* variable column masked to 15 bits, also when that column is marked
\* absent; an absent last variable column never moves the start of the
\* tagged region outside the row data or aborts decoding.  Stated for rows
\* without fixed columns whose masked end offset lies in the data.
C29_AbsentLastVariableColumnNoAbort ==
    (/\ call.op = "decode_row"
     /\ call.row_data[1] = 0
     /\ LastVariableAbsent(call.row_data)
     /\ VarEnd(call.row_data, VarCount(call.row_data)) % 32768 <= Len(VarData(call.row_data))
     /\ VariableWindowsInData(call.row_data, call.columns))
        => ret.r # Panic

\* whenever the last variable column is marked absent, decode_row returns
\* nothing: it aborts, or has failed before it reached the tagged region
C29_AbsentLastVariableColumnNeverOk ==
    (call.op = "decode_row" /\ LastVariableAbsent(call.row_data)) => ~IsOk(ret.r)

\* column 128 = 61 62, column 129 absent with end offset 2: decode_row aborts
C29_AbsentColumn129Aborts ==
    /\ call.op = "decode_row"
    /\ call.columns = SchemaA
    /\ call.row_data[1] = 0
    /\ VarCount(call.row_data) = 2
    /\ VarEnd(call.row_data, 1) = 2 /\ VarEnd(call.row_data, 2) = 32770
    /\ ret.r = Panic

(***************************************************************************)
(* table.rs: the catalog.  A decoded row is a function from column ids to  *)
(* values; Long and Short data keep the bytes decode_row read, and the     *)
(* numbers the catalog structs hold are read off them here.                *)
(***************************************************************************)
\* read_i32 / read_i16 (lines 566, 562) on the bytes kept
i32_from_le_bytes(b) ==
    IF b[4] >= 128 THEN LEToNat(<<b[1], b[2], b[3], b[4] - 128>>) + I32_MIN
    ELSE LEToNat(b)
i16_from_le_bytes(b) ==
    IF b[2] >= 128 THEN LEToNat(b) - 65536 ELSE LEToNat(b)

\* the bytes of a number, as the file holds them
I32Bytes(n) == IF n < 0 THEN [NatToLE(n - I32_MIN, 4) EXCEPT ![4] = @ + 128] ELSE NatToLE(n, 4)
I16Bytes(n) == IF n < 0 THEN NatToLE(n + 65536, 2) ELSE NatToLE(n, 2)

\* the column names of the catalog, as decode_string returns them
ObjidTableName == <<79, 98, 106, 105, 100, 84, 97, 98, 108, 101>>
TypeName == <<84, 121, 112, 101>>
IdName == <<73, 100>>
ColtypOrPgnoFDPName == <<67, 111, 108, 116, 121, 112, 79, 114, 80, 103, 110, 111, 70, 68, 80>>
SpaceUsageName == <<83, 112, 97, 99, 101, 85, 115, 97, 103, 101>>
FlagsName == <<70, 108, 97, 103, 115>>
PagesOrLocaleName == <<80, 97, 103, 101, 115, 79, 114, 76, 111, 99, 97, 108, 101>>
RootFlagName == <<82, 111, 111, 116, 70, 108, 97, 103>>
RecordOffsetName == <<82, 101, 99, 111, 114, 100, 79, 102, 102, 115, 101, 116>>
NameName == <<78, 97, 109, 101>>

\* struct Column (lines 167-178); an Option is a sequence of at most one value
ColumnDef(table_object_id, column_id, column_type, length, flags, codepage, root_flag, record_offset, name) ==
    [table_object_id |-> table_object_id, column_id |-> column_id,
     column_type |-> column_type, length |-> length, flags |-> flags,
     codepage |-> codepage, root_flag |-> root_flag,
     record_offset |-> record_offset, name |-> name]

\* ColumnFlags::FIXED (line 40)
FIXED == 1

\* lines 361-472
METADATA_COLUMN_DEFS ==
    <<ColumnDef(2, 1, "Long", 4, FIXED, 1252, <<>>, <<4>>, ObjidTableName),
      ColumnDef(2, 2, "Short", 2, FIXED, 1252, <<>>, <<4>>, TypeName),
      ColumnDef(2, 3, "Long", 4, FIXED, 1252, <<>>, <<4>>, IdName),
      ColumnDef(2, 4, "Long", 4, FIXED, 1252, <<>>, <<4>>, ColtypOrPgnoFDPName),
      ColumnDef(2, 5, "Long", 4, FIXED, 1252, <<>>, <<4>>, SpaceUsageName),
      ColumnDef(2, 6, "Long", 4, FIXED, 1252, <<>>, <<4>>, FlagsName),
      ColumnDef(2, 7, "Long", 4, FIXED, 1252, <<>>, <<4>>, PagesOrLocaleName),
      ColumnDef(2, 8, "Bit", 1, 0, 1252, <<>>, <<4>>, RootFlagName),
      ColumnDef(2, 9, "Short", 2, 0, 1252, <<>>, <<4>>, RecordOffsetName),
      ColumnDef(2, 128, "Text", 255, FIXED, 1252, <<>>, <<>>, NameName)>>

\* lines 914-919: the last column of a name is the one the map keeps
get_name_to_column(columns, name) ==
    LET named == {k \in 1..Len(columns) : columns[k].name = name}
    IN  IF named = {} THEN <<>>
        ELSE <<columns[CHOOSE k \in named : \A j \in named : j <= k]>>

get_value_required_nil_as_missing(columns, values, name, expected_type) ==
    LET column_def == get_name_to_column(columns, name)
    IN  IF column_def = <<>> THEN Err("MissingRequiredColumn")
        ELSE IF column_def[1].column_id \notin DOMAIN values THEN Err("MissingRequiredColumn")
        ELSE LET value == values[column_def[1].column_id]
             IN  IF value.kind # "Simple" \/ value.values[1].t = "Nil"
                 THEN Err("MissingRequiredColumn")
                 ELSE IF value.values[1].t = expected_type THEN Ok(value.values[1].v)
                 ELSE Err("WrongColumnType")

\* get_value!(@required ...), lines 66-83
get_value_required(columns, values, name, expected_type) ==
    LET column_def == get_name_to_column(columns, name)
    IN  IF column_def = <<>> THEN Err("MissingRequiredColumn")
        ELSE IF column_def[1].column_id \notin DOMAIN values THEN Err("MissingRequiredColumn")
        ELSE LET value == values[column_def[1].column_id]
             IN  IF value.kind # "Simple" THEN Err("MissingRequiredColumn")
                 ELSE IF value.values[1].t = expected_type THEN Ok(value.values[1].v)
                 ELSE Err("WrongColumnType")

\* get_value!(@optional_deref ...), lines 85-106: an Option, here a sequence
\* of at most one value
get_value_optional_deref(columns, values, name, expected_type) ==
    LET column_def == get_name_to_column(columns, name)
    IN  IF column_def = <<>> THEN Ok(<<>>)
        ELSE IF column_def[1].column_id \notin DOMAIN values THEN Ok(<<>>)
        ELSE LET value == values[column_def[1].column_id]
             IN  IF value.kind # "Simple" THEN Ok(<<>>)
                 ELSE IF value.values[1].t = "Nil" THEN Ok(<<>>)
                 ELSE IF value.values[1].t = expected_type THEN Ok(<<value.values[1].v>>)
                 ELSE Err("WrongColumnType")

\* ObjectType (lines 113-118)
OBJECT_TABLE == 1
OBJECT_COLUMN == 2
OBJECT_INDEX == 3
OBJECT_LONG_VALUE == 4
OBJECT_CALLBACK == 5

\* DataType::from_base_type (data.rs lines 19-39)
DataType_from_base_type(n) ==
    CASE n = 0 -> "Nil" [] n = 1 -> "Bit" [] n = 2 -> "UnsignedByte" [] n = 3 -> "Short"
      [] n = 4 -> "Long" [] n = 5 -> "Currency" [] n = 6 -> "IeeeSingle"
      [] n = 7 -> "IeeeDouble" [] n = 8 -> "DateTime" [] n = 9 -> "Binary"
      [] n = 10 -> "Text" [] n = 11 -> "LongBinary" [] n = 12 -> "LongText"
      [] n = 13 -> "SuperLongValue" [] n = 14 -> "UnsignedLong" [] n = 15 -> "LongLong"
      [] n = 16 -> "Guid" [] n = 17 -> "UnsignedShort" [] OTHER -> "Other"

\* what the four try_from_metadata make of their reads: the first read that
\* fails is returned
metadata_of(type, reads, expected) ==
    IF ~IsOk(type) THEN type
    ELSE IF i16_from_le_bytes(type.val) # expected THEN Err("WrongObjectType")
    ELSE IF \E k \in 1..9 : ~IsOk(reads[k])
    THEN reads[CHOOSE k \in 1..9 : ~IsOk(reads[k]) /\ \A j \in 1..(k - 1) : IsOk(reads[j])]
    ELSE Ok([table_object_id |-> i32_from_le_bytes(reads[1].val),
             id |-> i32_from_le_bytes(reads[2].val),
             coltyp_or_pgno_fdp |-> i32_from_le_bytes(reads[3].val),
             space_usage |-> i32_from_le_bytes(reads[4].val),
             flags |-> i32_from_le_bytes(reads[5].val),
             pages_or_locale |-> i32_from_le_bytes(reads[6].val),
             root_flag |-> reads[7].val,
             record_offset |-> [k \in 1..Len(reads[8].val) |->
                                   i16_from_le_bytes(reads[8].val[k])],
             name |-> reads[9].val])

\* the reads the four try_from_metadata make, in their order (lines 139-151,
\* 183-197, 230-243, 274-284)
metadata_reads(column_defs, values, expected, has_root_flag, has_record_offset) ==
    metadata_of(
        get_value_required(column_defs, values, TypeName, "Short"),
        <<get_value_required(column_defs, values, ObjidTableName, "Long"),
          get_value_required(column_defs, values, IdName, "Long"),
          get_value_required(column_defs, values, ColtypOrPgnoFDPName, "Long"),
          get_value_required(column_defs, values, SpaceUsageName, "Long"),
          get_value_required(column_defs, values, FlagsName, "Long"),
          get_value_required(column_defs, values, PagesOrLocaleName, "Long"),
          IF has_root_flag
          THEN get_value_optional_deref(column_defs, values, RootFlagName, "Bit")
          ELSE Ok(<<>>),
          IF has_record_offset
          THEN get_value_optional_deref(column_defs, values, RecordOffsetName, "Short")
          ELSE Ok(<<>>),
          get_value_required(column_defs, values, NameName, "Text")>>,
        expected)

\* lines 153-162: the TableHeader of the values read
TableHeader_of(m) ==
    IF ~IsOk(m) THEN m
    ELSE Ok([table_object_id |-> m.val.table_object_id, fdp_object_id |-> m.val.id,
             fdp_page_number |-> m.val.coltyp_or_pgno_fdp,
             density |-> m.val.space_usage, flags |-> m.val.flags,
             page_count |-> m.val.pages_or_locale, root_flag |-> m.val.root_flag,
             name |-> m.val.name])

\* TableHeader::try_from_metadata, lines 136-163
TableHeader_try_from_metadata(column_defs, values) ==
    TableHeader_of(metadata_reads(column_defs, values, OBJECT_TABLE, TRUE, FALSE))

\* lines 199-211: the Column of the values read
Column_of(m) ==
    IF ~IsOk(m) THEN m
    ELSE Ok(ColumnDef(m.val.table_object_id, m.val.id,
                      DataType_from_base_type(m.val.coltyp_or_pgno_fdp),
                      m.val.space_usage, m.val.flags, m.val.pages_or_locale,
                      m.val.root_flag, m.val.record_offset, m.val.name))

\* Column::try_from_metadata, lines 180-212
Column_try_from_metadata(column_defs, values) ==
    Column_of(metadata_reads(column_defs, values, OBJECT_COLUMN, TRUE, TRUE))

\* lines 245-257: the Index of the values read
Index_of(m) ==
    IF ~IsOk(m) THEN m
    ELSE Ok([table_object_id |-> m.val.table_object_id, index_id |-> m.val.id,
             fdp_page_number |-> m.val.coltyp_or_pgno_fdp,
             used_pages |-> m.val.space_usage, flags |-> m.val.flags,
             locale |-> m.val.pages_or_locale, root_flag |-> m.val.root_flag,
             record_offset |-> m.val.record_offset, name |-> m.val.name])

\* Index::try_from_metadata, lines 227-258
Index_try_from_metadata(column_defs, values) ==
    Index_of(metadata_reads(column_defs, values, OBJECT_INDEX, TRUE, TRUE))

\* lines 286-296: the LongValueInfo of the values read
LongValueInfo_of(m) ==
    IF ~IsOk(m) THEN m
    ELSE Ok([table_object_id |-> m.val.table_object_id, long_value_id |-> m.val.id,
             fdp_page_number |-> m.val.coltyp_or_pgno_fdp,
             used_pages |-> m.val.space_usage, flags |-> m.val.flags,
             page_count |-> m.val.pages_or_locale, name |-> m.val.name])

\* LongValueInfo::try_from_metadata, lines 271-297
LongValueInfo_try_from_metadata(column_defs, values) ==
    LongValueInfo_of(metadata_reads(column_defs, values, OBJECT_LONG_VALUE, FALSE, FALSE))

\* the four maps of lines 947-950
NoTables ==
    [table_number_to_header |-> <<>>, table_number_to_columns |-> <<>>,
     table_number_to_indexes |-> <<>>, table_number_to_long_value |-> <<>>]

\* entry(key).or_insert_with(Vec::new).push(item), lines 962-965 and 969-972
push_entry(map, key, item) ==
    IF key \in DOMAIN map THEN [map EXCEPT ![key] = Append(@, item)]
    ELSE (key :> <<item>>) @@ map

RECURSIVE collect_rows(_, _, _, _)
\* the loop of lines 952-982 from row k on
collect_rows(rows, metadata_columns, k, acc) ==
    IF k > Len(rows) THEN Ok(acc)
    ELSE LET row == rows[k]
             type == get_value_required(metadata_columns, row, TypeName, "Short")
             type_value == i16_from_le_bytes(type.val)
             table_header == TableHeader_try_from_metadata(metadata_columns, row)
             column == Column_try_from_metadata(metadata_columns, row)
             index == Index_try_from_metadata(metadata_columns, row)
             long_value == LongValueInfo_try_from_metadata(metadata_columns, row)
         IN  IF ~IsOk(type) THEN type
             ELSE IF type_value = OBJECT_TABLE
             THEN IF ~IsOk(table_header) THEN table_header
                  ELSE collect_rows(rows, metadata_columns, k + 1,
                         [acc EXCEPT !.table_number_to_header =
                             (table_header.val.table_object_id :> table_header.val) @@ @])
             ELSE IF type_value = OBJECT_COLUMN
             THEN IF ~IsOk(column) THEN column
                  ELSE collect_rows(rows, metadata_columns, k + 1,
                         [acc EXCEPT !.table_number_to_columns =
                             push_entry(@, column.val.table_object_id, column.val)])
             ELSE IF type_value = OBJECT_INDEX
             THEN IF ~IsOk(index) THEN index
                  ELSE collect_rows(rows, metadata_columns, k + 1,
                         [acc EXCEPT !.table_number_to_indexes =
                             push_entry(@, index.val.table_object_id, index.val)])
             ELSE IF type_value = OBJECT_LONG_VALUE
             THEN IF ~IsOk(long_value) THEN long_value
                  ELSE collect_rows(rows, metadata_columns, k + 1,
                         [acc EXCEPT !.table_number_to_long_value =
                             (long_value.val.table_object_id :> long_value.val) @@ @])
             ELSE collect_rows(rows, metadata_columns, k + 1, acc)

Orders(n) == {p \in [1..n -> 1..n] : \A i, j \in 1..n : i # j => p[i] # p[j]}

\* slice::sort_unstable_by_key (lines 985, 988): the orders it may leave v
\* in, ascending by key, elements of equal keys in any order
\* keys[i] is the key of v[i]
sort_unstable_by_key_skipped(v, keys) == {v}

RECURSIVE OrdersOf(_)
\* the orders of the members of a set
OrdersOf(members) ==
    IF members = {} THEN {<<>>}
    ELSE UNION {{<<x>> \o rest : rest \in OrdersOf(members \ {x})} : x \in members}

RECURSIVE ascending_orders(_, _)
\* the orders of the positions left, ascending by key
ascending_orders(keys, left) ==
    IF left = {} THEN {<<>>}
    ELSE LET least == {i \in left : \A j \in left : keys[i] <= keys[j]}
         IN  {first \o rest : first \in OrdersOf(least),
                              rest \in ascending_orders(keys, left \ least)}

sort_unstable_by_key(v, keys) ==
    {[i \in 1..Len(v) |-> v[p[i]]] : p \in ascending_orders(keys, DOMAIN v)}

descending(keys) ==
    [i \in 1..Cardinality(keys) |->
        CHOOSE x \in keys : Cardinality({y \in keys : y > x}) = i - 1]

\* the keys of a BTreeMap in the order its iterator gives them (line 992)
ascending(keys) ==
    [i \in 1..Cardinality(keys) |->
        CHOOSE x \in keys : Cardinality({y \in keys : y < x}) = i - 1]

\* lines 984-1006: the tables made of the collected maps c, one result for
\* each order sort_unstable_by_key may leave the columns and indexes in
sorted_tables(c) ==
    LET ids == DOMAIN c.val.table_number_to_header
        column_orders(id) ==
            IF id \in DOMAIN c.val.table_number_to_columns
            THEN sort_unstable_by_key(c.val.table_number_to_columns[id],
                    [i \in DOMAIN c.val.table_number_to_columns[id] |->
                        c.val.table_number_to_columns[id][i].column_id])
            ELSE {<<>>}
        index_orders(id) ==
            IF id \in DOMAIN c.val.table_number_to_indexes
            THEN sort_unstable_by_key(c.val.table_number_to_indexes[id],
                    [i \in DOMAIN c.val.table_number_to_indexes[id] |->
                        c.val.table_number_to_indexes[id][i].index_id])
            ELSE {<<>>}
        sorted == {f \in [ids -> (UNION {column_orders(id) : id \in ids})
                                 \X (UNION {index_orders(id) : id \in ids})] :
                      \A id \in ids : /\ f[id][1] \in column_orders(id)
                                      /\ f[id][2] \in index_orders(id)}
    IN  IF ~IsOk(c) THEN {c}
        ELSE {Ok([k \in 1..Cardinality(ids) |->
                    LET id == ascending(ids)[k]
                    IN  [header |-> c.val.table_number_to_header[id],
                         columns |-> f[id][1],
                         indexes |-> f[id][2],
                         long_value |->
                            IF id \in DOMAIN c.val.table_number_to_long_value
                            THEN <<c.val.table_number_to_long_value[id]>>
                            ELSE <<>>]]) : f \in sorted}

\* lines 944-1007: the results collect_tables may return for these rows
collect_tables(rows, metadata_columns) ==
    UNION {sorted_tables(c) : c \in {collect_rows(rows, metadata_columns, 1, NoTables)}}

(***************************************************************************)
(* Catalog specification: collect_tables on up to MaxCatalogRows decoded   *)
(* rows of the catalog, well-formed and not, in every order.               *)
(***************************************************************************)
MaxCatalogRows == 3

\* a row as decode_row returns it for the columns of METADATA_COLUMN_DEFS
MetaRow(type, objid_table, id, coltyp_or_pgno_fdp, space_usage, flags, pages_or_locale, name) ==
    (1 :> Simple(Data("Long", I32Bytes(objid_table))))
    @@ (2 :> Simple(Data("Short", I16Bytes(type))))
    @@ (3 :> Simple(Data("Long", I32Bytes(id))))
    @@ (4 :> Simple(Data("Long", I32Bytes(coltyp_or_pgno_fdp))))
    @@ (5 :> Simple(Data("Long", I32Bytes(space_usage))))
    @@ (6 :> Simple(Data("Long", I32Bytes(flags))))
    @@ (7 :> Simple(Data("Long", I32Bytes(pages_or_locale))))
    @@ (128 :> Simple(Data("Text", name)))

Without(row, ids) == [id \in DOMAIN row \ ids |-> row[id]]
With(row, id, value) == (id :> value) @@ row

\* well-formed rows: tables 5 ("T", and again as "U") and 6, columns 1 and
\* 128 of table 5 and column 1 again under another name, two indexes and two
\* long-value rows of table 5, a callback row that holds its type only
WellFormedRows ==
    {MetaRow(OBJECT_TABLE, 5, 5, 20, 80, 0, 1, <<84>>),
     MetaRow(OBJECT_TABLE, 5, 5, 21, 80, 0, 1, <<85>>),
     With(MetaRow(OBJECT_TABLE, 6, 6, 30, 80, 0 - 1, 1, <<86>>), 8, Simple(Data("Bit", <<1>>))),
     MetaRow(OBJECT_COLUMN, 5, 1, 4, 4, FIXED, 1252, <<65>>),
     With(MetaRow(OBJECT_COLUMN, 5, 128, 10, 255, 0, 1252, <<66>>), 9, Simple(Nil)),
     MetaRow(OBJECT_COLUMN, 5, 1, 3, 2, FIXED, 1252, <<67>>),
     MetaRow(OBJECT_INDEX, 5, 2, 22, 1, 0, 1033, <<73>>),
     MetaRow(OBJECT_INDEX, 5, 1, 23, 1, 0, 1033, <<74>>),
     MetaRow(OBJECT_LONG_VALUE, 5, 1, 9, 1, 0, 1, <<76>>),
     MetaRow(OBJECT_LONG_VALUE, 5, 1, 10, 1, 0, 1, <<77>>),
     Without(MetaRow(OBJECT_CALLBACK, 5, 1, 0, 0, 0, 0, <<>>), {1, 3, 4, 5, 6, 7, 128})}

\* rows that do not satisfy the catalog's schema: no Type; a null Type; a
\* column row without a name; a table row whose Id is a tagged value; an
\* index row whose Flags are a Short; a table row without a name whose
\* RootFlag is a Long
DefectiveRows ==
    {Without(MetaRow(OBJECT_TABLE, 6, 6, 30, 80, 0, 1, <<86>>), {2}),
     With(MetaRow(OBJECT_TABLE, 6, 6, 30, 80, 0, 1, <<86>>), 2, Simple(Nil)),
     Without(MetaRow(OBJECT_COLUMN, 5, 2, 4, 4, FIXED, 1252, <<>>), {128}),
     With(MetaRow(OBJECT_TABLE, 6, 6, 30, 80, 0, 1, <<86>>), 3,
          Complex(Data("Long", I32Bytes(6)), 0)),
     With(MetaRow(OBJECT_INDEX, 5, 3, 24, 1, 0, 1033, <<75>>), 6,
          Simple(Data("Short", I16Bytes(0)))),
     With(Without(MetaRow(OBJECT_TABLE, 6, 6, 30, 80, 0, 1, <<>>), {128}), 8,
          Simple(Data("Long", I32Bytes(1))))}

CatalogRows == WellFormedRows \cup DefectiveRows

\* the rows of a catalog: up to MaxCatalogRows different rows in an order
CatalogRowSeqs ==
    UNION {{rows \in [1..n -> CatalogRows] :
               \A i, j \in 1..n : i # j => rows[i] # rows[j]} : n \in 0..MaxCatalogRows}

InitCatalog ==
    /\ overflow_checks = FALSE
    /\ file = EmptyFile
    /\ header = NoHeader
    /\ tree = NoTree
    /\ call = NoCall
    /\ ret = NoRet

\* addump main.rs lines 43 and 54: the rows read are collected
CollectTables ==
    /\ call.op = "none"
    /\ \E rows \in CatalogRowSeqs :
          /\ call' = [op |-> "collect_tables", rows |-> rows,
                      metadata_columns |-> METADATA_COLUMN_DEFS]
          /\ ret' \in collect_tables(rows, METADATA_COLUMN_DEFS)
    /\ UNCHANGED <<overflow_checks, file, header, tree>>

NextCatalog == CollectTables

SpecCatalog == InitCatalog /\ [][NextCatalog]_vars

(***************************************************************************)
(* The rows of a catalog, read off the call.                               *)
(***************************************************************************)
\* the object type a row holds; 0 if it holds none
RowType(row) ==
    IF 2 \in DOMAIN row /\ row[2].kind = "Simple" /\ row[2].values[1].t = "Short"
    THEN i16_from_le_bytes(row[2].values[1].v) ELSE 0

\* the rows of an object type that belong to table id
RowsOf(rows, type, id) ==
    {k \in 1..Len(rows) :
        /\ RowType(rows[k]) = type
        /\ i32_from_le_bytes(rows[k][1].values[1].v) = id}

TableIds(rows) ==
    {i32_from_le_bytes(rows[k][1].values[1].v) :
        k \in {j \in 1..Len(rows) : RowType(rows[j]) = OBJECT_TABLE}}

Last(ks) == CHOOSE k \in ks : \A j \in ks : j <= k

\* list holds exactly the items of the rows ks, one for each row
ExactlyTheRows(list, ks, item(_)) ==
    /\ Len(list) = Cardinality(ks)
    /\ \E f \in [1..Len(list) -> ks] :
          /\ \A i, j \in 1..Len(list) : i # j => f[i] # f[j]
          /\ \A i \in 1..Len(list) : list[i] = item(f[i])

\* the table collect_tables returned for table id
TableOf(tables, id) ==
    tables[CHOOSE k \in 1..Len(tables) : tables[k].header.table_object_id = id]

\* what the claim says of one returned catalog, but for the order of the rows
TablesHoldTheirRows(rows, metadata_columns, tables) ==
    /\ \A id \in TableIds(rows) :
          \E k \in 1..Len(tables) : tables[k].header.table_object_id = id
    /\ \A k \in 1..Len(tables) :
          LET id == tables[k].header.table_object_id
          IN  /\ id \in TableIds(rows)
              /\ ExactlyTheRows(tables[k].columns, RowsOf(rows, OBJECT_COLUMN, id),
                    LAMBDA r : Column_try_from_metadata(metadata_columns, rows[r]).val)
              /\ \A i \in 1..(Len(tables[k].columns) - 1) :
                    tables[k].columns[i].column_id <= tables[k].columns[i + 1].column_id
              /\ ExactlyTheRows(tables[k].indexes, RowsOf(rows, OBJECT_INDEX, id),
                    LAMBDA r : Index_try_from_metadata(metadata_columns, rows[r]).val)
              /\ \A i \in 1..(Len(tables[k].indexes) - 1) :
                    tables[k].indexes[i].index_id <= tables[k].indexes[i + 1].index_id
              /\ Len(tables[k].long_value) = 1 <=> RowsOf(rows, OBJECT_LONG_VALUE, id) # {}
              /\ \A l \in 1..Len(tables[k].long_value) :
                    \E r \in RowsOf(rows, OBJECT_LONG_VALUE, id) :
                        tables[k].long_value[l] =
                            LongValueInfo_try_from_metadata(metadata_columns, rows[r]).val

Reordered(rows, p) == [i \in 1..Len(rows) |-> rows[p[i]]]

\* rows i and i + 1 exchanged: every order of the rows is reached from every
\* other by such exchanges
Exchanged(rows, i) == [rows EXCEPT ![i] = rows[i + 1], ![i + 1] = rows[i]]

\* no two table rows and no two long-value rows of one table, no two column
\* rows of one table and column id, no two index rows of one table and index id
NoRowTwice(rows) ==
    \A i, j \in 1..Len(rows) :
        (/\ i # j
         /\ RowType(rows[i]) = RowType(rows[j])
         /\ RowType(rows[i]) \in {OBJECT_TABLE, OBJECT_COLUMN, OBJECT_INDEX, OBJECT_LONG_VALUE}
         /\ rows[i][1] = rows[j][1])
            => /\ RowType(rows[i]) \in {OBJECT_COLUMN, OBJECT_INDEX}
               /\ rows[i][3] # rows[j][3]

\* C15 as claimed: collect_tables returns one Table for each Table row, with
\* exactly the Column rows of its ObjidTable ascending by column_id, exactly
\* the Index rows ascending by index_id and the LongValue row if any, and
\* the same result whatever the order of the input rows.
C15_OneTablePerRowInAnyOrder ==
    (call.op = "collect_tables" /\ IsOk(ret)) =>
        /\ Len(ret.val) =
              Cardinality({k \in 1..Len(call.rows) : RowType(call.rows[k]) = OBJECT_TABLE})
        /\ TablesHoldTheirRows(call.rows, call.metadata_columns, ret.val)
        /\ \A p \in Orders(Len(call.rows)) :
              collect_tables(Reordered(call.rows, p), call.metadata_columns) = {ret}

\* C15 as amended: collect_tables returns one Table for each ObjidTable that
\* a Table row holds, ascending by ObjidTable, its header that of the last
\* such row; its columns are exactly the Column rows of that ObjidTable
\* ascending by column_id, its indexes exactly the Index rows ascending by
\* index_id, its long_value the last LongValue row of that ObjidTable if
\* any; when no row comes twice, the result is the same for every order of
\* the rows (it is the same with any two neighbouring rows exchanged, in
\* every order of the rows).
C15_OneTablePerTableId ==
    (call.op = "collect_tables" /\ IsOk(ret)) =>
        /\ Len(ret.val) = Cardinality(TableIds(call.rows))
        /\ \A k \in 1..(Len(ret.val) - 1) :
              ret.val[k].header.table_object_id < ret.val[k + 1].header.table_object_id
        /\ TablesHoldTheirRows(call.rows, call.metadata_columns, ret.val)
        /\ \A id \in TableIds(call.rows) :
              /\ TableOf(ret.val, id).header =
                    TableHeader_try_from_metadata(call.metadata_columns,
                        call.rows[Last(RowsOf(call.rows, OBJECT_TABLE, id))]).val
              /\ RowsOf(call.rows, OBJECT_LONG_VALUE, id) # {} =>
                    TableOf(ret.val, id).long_value[1] =
                        LongValueInfo_try_from_metadata(call.metadata_columns,
                            call.rows[Last(RowsOf(call.rows, OBJECT_LONG_VALUE, id))]).val
        /\ NoRowTwice(call.rows) =>
              \A i \in 1..(Len(call.rows) - 1) :
                  collect_tables(Exchanged(call.rows, i), call.metadata_columns) = {ret}

\* table 5 with column 128 read before column 1 and an index: the columns
\* come back as 1, 128
C15_ColumnsSortedFromAnyOrder ==
    /\ call.op = "collect_tables" /\ IsOk(ret)
    /\ Len(call.rows) = 3
    /\ RowType(call.rows[1]) = OBJECT_COLUMN /\ call.rows[1][3].values[1].v = I32Bytes(128)
    /\ RowType(call.rows[2]) = OBJECT_COLUMN /\ call.rows[2][3].values[1].v = I32Bytes(1)
    /\ RowType(call.rows[3]) = OBJECT_TABLE
    /\ Len(ret.val) = 1
    /\ Len(ret.val[1].columns) = 2
    /\ ret.val[1].columns[1].column_id = 1
    /\ ret.val[1].columns[2].column_id = 128
    /\ ret.val[1].columns[2].column_type = "Text"

\* the reads of a row of an object type, in the order they are made: column
\* id, data type, required or not
CatalogRead(id, t, required) == [id |-> id, t |-> t, required |-> required]
CatalogReads(type) ==
    <<CatalogRead(1, "Long", TRUE), CatalogRead(3, "Long", TRUE),
      CatalogRead(4, "Long", TRUE), CatalogRead(5, "Long", TRUE),
      CatalogRead(6, "Long", TRUE), CatalogRead(7, "Long", TRUE)>>
    \o (IF type # OBJECT_LONG_VALUE THEN <<CatalogRead(8, "Bit", FALSE)>> ELSE <<>>)
    \o (IF type \in {OBJECT_COLUMN, OBJECT_INDEX} THEN <<CatalogRead(9, "Short", FALSE)>>
        ELSE <<>>)
    \o <<CatalogRead(128, "Text", TRUE)>>

Lacks(row, id) == id \notin DOMAIN row \/ row[id].kind # "Simple"
OtherType(row, id, t) == ~Lacks(row, id) /\ row[id].values[1].t # t

\* the error a read of a row fails with; "none" if it does not fail
ReadDefect(row, read) ==
    IF read.required
    THEN IF Lacks(row, read.id) THEN "MissingRequiredColumn"
         ELSE IF OtherType(row, read.id, read.t) THEN "WrongColumnType" ELSE "none"
    ELSE IF OtherType(row, read.id, read.t) /\ row[read.id].values[1].t # "Nil"
         THEN "WrongColumnType" ELSE "none"

\* the reads collect_tables makes of a row
RowReads(row) ==
    <<CatalogRead(2, "Short", TRUE)>>
    \o (IF RowType(row) \in {OBJECT_TABLE, OBJECT_COLUMN, OBJECT_INDEX, OBJECT_LONG_VALUE}
        THEN CatalogReads(RowType(row)) ELSE <<>>)

\* the error of the first read of the row that fails; "none" if none does
RowDefect(row) ==
    LET reads == RowReads(row)
        failing == {k \in 1..Len(reads) : ReadDefect(row, reads[k]) # "none"}
    IN  IF failing = {} THEN "none"
        ELSE ReadDefect(row, reads[CHOOSE k \in failing : \A j \in failing : k <= j])

\* the rows that lack a Simple value for a required column / hold a Simple
\* value of another data type for one
RowsLacking(rows) ==
    {k \in 1..Len(rows) : \E i \in 1..Len(RowReads(rows[k])) :
        RowReads(rows[k])[i].required /\ Lacks(rows[k], RowReads(rows[k])[i].id)}
RowsOfOtherType(rows) ==
    {k \in 1..Len(rows) : \E i \in 1..Len(RowReads(rows[k])) :
        /\ RowReads(rows[k])[i].required
        /\ OtherType(rows[k], RowReads(rows[k])[i].id, RowReads(rows[k])[i].t)}

\* C16 as claimed: if a row lacks a Simple value for a required column,
\* collect_tables fails with MissingRequiredColumn; if such a value has
\* another data type, it fails with WrongColumnType; no Table is returned.
C16_DefectKindIsErrorKind ==
    call.op = "collect_tables" =>
        /\ (RowsLacking(call.rows) # {} \/ RowsOfOtherType(call.rows) # {}) => ~IsOk(ret)
        /\ (RowsLacking(call.rows) # {} /\ RowsOfOtherType(call.rows) = {})
              => IsErr(ret, "MissingRequiredColumn")
        /\ (RowsOfOtherType(call.rows) # {} /\ RowsLacking(call.rows) = {})
              => IsErr(ret, "WrongColumnType")

\* C16 as amended: collect_tables returns tables only if no read of any row
\* fails; otherwise it returns no Table and the error of the first read
\* that fails, in the order of the rows and, in a row, of its reads:
\* MissingRequiredColumn for a required column without a Simple value,
\* WrongColumnType for a required column of another data type (Nil
\* included) and for RootFlag or RecordOffset of a type other than Nil and
\* their own.
C16_FirstDefectDecides ==
    call.op = "collect_tables" =>
        LET defective == {k \in 1..Len(call.rows) : RowDefect(call.rows[k]) # "none"}
        IN  IF defective = {} THEN IsOk(ret)
            ELSE ret = Err(RowDefect(call.rows[CHOOSE k \in defective :
                                                 \A j \in defective : k <= j]))

\* two well-formed rows, then a column row without a name: nothing is returned
C16_WellFormedRowsNotReturned ==
    /\ call.op = "collect_tables"
    /\ Len(call.rows) = 3
    /\ RowDefect(call.rows[1]) = "none" /\ RowType(call.rows[1]) = OBJECT_TABLE
    /\ RowDefect(call.rows[2]) = "none" /\ RowType(call.rows[2]) = OBJECT_COLUMN
    /\ RowType(call.rows[3]) = OBJECT_COLUMN /\ Lacks(call.rows[3], 128)
    /\ ret = Err("MissingRequiredColumn")

\* the ObjidTable of a row
ObjidTableOf(row) == i32_from_le_bytes(row[1].values[1].v)

\* the Column, Index and LongValue rows whose ObjidTable no Table row holds
OrphanRows(rows, type) ==
    {k \in 1..Len(rows) : /\ RowType(rows[k]) = type
                          /\ ObjidTableOf(rows[k]) \notin TableIds(rows)}

\* C30: for rows that collect_tables accepts, the returned tables have
\* pairwise distinct table_object_id in strictly ascending order (a later
\* Table row of the same id replaces the earlier one), every column, index
\* and long_value inside a Table carries that Table's table_object_id, and
\* Column, Index and LongValue rows whose ObjidTable matches no Table row
\* appear in no returned Table.
C30_TablesAscendingAndSelfContained ==
    (call.op = "collect_tables" /\ IsOk(ret)) =>
        /\ \A j, k \in 1..Len(ret.val) :
              j < k => ret.val[j].header.table_object_id < ret.val[k].header.table_object_id
        /\ \A k \in 1..Len(ret.val) :
              /\ ret.val[k].header.table_object_id \in TableIds(call.rows)
              /\ ret.val[k].header =
                    TableHeader_try_from_metadata(call.metadata_columns,
                        call.rows[Last(RowsOf(call.rows, OBJECT_TABLE,
                                              ret.val[k].header.table_object_id))]).val
              /\ \A i \in 1..Len(ret.val[k].columns) :
                    ret.val[k].columns[i].table_object_id = ret.val[k].header.table_object_id
              /\ \A i \in 1..Len(ret.val[k].indexes) :
                    ret.val[k].indexes[i].table_object_id = ret.val[k].header.table_object_id
              /\ \A i \in 1..Len(ret.val[k].long_value) :
                    ret.val[k].long_value[i].table_object_id
                        = ret.val[k].header.table_object_id
              /\ \A r \in OrphanRows(call.rows, OBJECT_COLUMN) :
                    \A i \in 1..Len(ret.val[k].columns) :
                        ret.val[k].columns[i] #
                            Column_try_from_metadata(call.metadata_columns, call.rows[r]).val
              /\ \A r \in OrphanRows(call.rows, OBJECT_INDEX) :
                    \A i \in 1..Len(ret.val[k].indexes) :
                        ret.val[k].indexes[i] #
                            Index_try_from_metadata(call.metadata_columns, call.rows[r]).val
              /\ \A r \in OrphanRows(call.rows, OBJECT_LONG_VALUE) :
                    \A i \in 1..Len(ret.val[k].long_value) :
                        ret.val[k].long_value[i] #
                            LongValueInfo_try_from_metadata(call.metadata_columns,
                                                            call.rows[r]).val

\* tables 6 and 5 read in this order with a column of table 5 between them:
\* the result holds table 5, with the column, before table 6
C30_TwoTablesAscending ==
    /\ call.op = "collect_tables" /\ IsOk(ret)
    /\ Len(call.rows) = 3
    /\ RowType(call.rows[1]) = OBJECT_TABLE /\ ObjidTableOf(call.rows[1]) = 6
    /\ RowType(call.rows[2]) = OBJECT_COLUMN /\ ObjidTableOf(call.rows[2]) = 5
    /\ RowType(call.rows[3]) = OBJECT_TABLE /\ ObjidTableOf(call.rows[3]) = 5
    /\ Len(ret.val) = 2
    /\ ret.val[1].header.table_object_id = 5 /\ Len(ret.val[1].columns) = 1
    /\ ret.val[2].header.table_object_id = 6 /\ ret.val[2].columns = <<>>

\* table 6 with a column and a long-value row of table 5, which has no
\* Table row: table 6 is returned alone and empty
C30_OrphanRowsDropped ==
    /\ call.op = "collect_tables" /\ IsOk(ret)
    /\ Len(call.rows) = 3
    /\ OrphanRows(call.rows, OBJECT_COLUMN) # {}
    /\ OrphanRows(call.rows, OBJECT_LONG_VALUE) # {}
    /\ Len(ret.val) = 1
    /\ ret.val[1].header.table_object_id = 6
    /\ ret.val[1].columns = <<>> /\ ret.val[1].long_value = <<>>

\* two Table rows of id 5: one table, its header that of the later row
C30_LaterTableRowReplaces ==
    /\ call.op = "collect_tables" /\ IsOk(ret)
    /\ Len(call.rows) = 2
    /\ RowType(call.rows[1]) = OBJECT_TABLE /\ RowType(call.rows[2]) = OBJECT_TABLE
    /\ ObjidTableOf(call.rows[1]) = 5 /\ ObjidTableOf(call.rows[2]) = 5
    /\ Len(ret.val) = 1
    /\ ret.val[1].header.name = call.rows[2][128].values[1].v

(***************************************************************************)
(* table.rs: read_table_from_pages; addump main.rs: the catalog bootstrap. *)
(***************************************************************************)
\* the loop of lines 934-938 over the decoded rows: all of them, or the
\* failure of the first row that fails
rows_or_first_failure(decoded) ==
    LET failed == {k \in DOMAIN decoded : ~IsOk(decoded[k])}
    IN  IF failed = {} THEN Ok([k \in DOMAIN decoded |-> decoded[k].val])
        ELSE decoded[CHOOSE k \in failed : \A j \in failed : k <= j]

decode_rows(t, raw_rows, columns, page_size, large_value_page_number) ==
    rows_or_first_failure(
        [k \in 1..Len(raw_rows) |->
            decode_row(t, raw_rows[k], columns, page_size, large_value_page_number).r])

\* lines 929-933: the raw rows, or the error of the tree walk
rows_of_walk(walk, t, columns, page_size, large_value_page_number) ==
    IF walk.kind # "ok" THEN Err(walk.err)
    ELSE decode_rows(t, walk.out, columns, page_size, large_value_page_number)

\* lines 922-941
read_table_from_pages(t, hdr, page_number, columns, large_value_page_number) ==
    rows_of_walk(read_data_from_tree(t, page_number, 0, USIZE_MAX, <<>>, 0),
                 t, columns, hdr.page_size, large_value_page_number)

\* esedb::page::CATALOG_PAGE_NUMBER
CATALOG_PAGE_NUMBER == 4

MSysObjectsName == <<77, 83, 121, 115, 79, 98, 106, 101, 99, 116, 115>>

\* naive_tables.iter().find(|t| t.header.name == "MSysObjects"), main.rs
\* lines 47-48: the first table of the name, none if there is none
find_table(tables, name) ==
    LET named == {k \in 1..Len(tables) : tables[k].header.name = name}
    IN  IF named = {} THEN <<>>
        ELSE <<tables[CHOOSE k \in named : \A j \in named : k <= j]>>

long_value_page_number_dropped(table) == Ok(None)

\* Table::long_value_page_number, table.rs lines 307-310; try_into().unwrap()
\* panics on a negative page number
long_value_page_number(table) ==
    IF table.long_value = <<>> THEN Ok(None)
    ELSE IF table.long_value[1].fdp_page_number < 0 THEN Panic
    ELSE Ok(Some(table.long_value[1].fdp_page_number))

\* one call of read_table_from_pages, as main makes it
CatalogReadOf(page_number, columns, large_value_page_number) ==
    [page_number |-> page_number, columns |-> columns,
     large_value_page_number |-> large_value_page_number]

(***************************************************************************)
(* Bootstrap specification: main from the first read of the catalog to the *)
(* final catalog, on databases of four pages: page 2 holds the long        *)
(* values, pages 3 and 4 hold catalogs.                                    *)
(***************************************************************************)
\* the bytes of a catalog row: fixed columns 1 to 7, the name in variable
\* column 128, tagged entries
RawCatalogRow(type, objid_table, id, coltyp_or_pgno_fdp, space_usage, flags, pages_or_locale, name, tagged) ==
    Row(FixedPart(7, I32Bytes(objid_table) \o I16Bytes(type) \o I32Bytes(id)
                     \o I32Bytes(coltyp_or_pgno_fdp) \o I32Bytes(space_usage)
                     \o I32Bytes(flags) \o I32Bytes(pages_or_locale), <<0>>),
        VariablePart(128, <<Len(name)>>, name), tagged)

\* the rows that describe the columns of MSysObjects (table 2): the eight
\* required columns and the LongText column 256
MSysObjectsColumnRows ==
    <<RawCatalogRow(OBJECT_COLUMN, 2, 1, 4, 4, FIXED, 1252, ObjidTableName, <<>>),
      RawCatalogRow(OBJECT_COLUMN, 2, 2, 3, 2, FIXED, 1252, TypeName, <<>>),
      RawCatalogRow(OBJECT_COLUMN, 2, 3, 4, 4, FIXED, 1252, IdName, <<>>),
      RawCatalogRow(OBJECT_COLUMN, 2, 4, 4, 4, FIXED, 1252, ColtypOrPgnoFDPName, <<>>),
      RawCatalogRow(OBJECT_COLUMN, 2, 5, 4, 4, FIXED, 1252, SpaceUsageName, <<>>),
      RawCatalogRow(OBJECT_COLUMN, 2, 6, 4, 4, FIXED, 1252, FlagsName, <<>>),
      RawCatalogRow(OBJECT_COLUMN, 2, 7, 4, 4, FIXED, 1252, PagesOrLocaleName, <<>>),
      RawCatalogRow(OBJECT_COLUMN, 2, 256, 12, 0, 0, 1252, <<76>>, <<>>),
      RawCatalogRow(OBJECT_COLUMN, 2, 128, 10, 255, 0, 1252, NameName, <<>>)>>

LeafPage(rows) ==
    [leaf |-> TRUE, tags |-> <<HeaderTag>> \o [k \in 1..Len(rows) |-> LeafEntry(<<k>>, rows[k])]]

\* page 4: the row of table 2 under a name, its tree at page fdp, its column
\* rows with or without the one of Name, with or without a long-value row
CatalogPage(name, fdp, with_name_column, with_long_value) ==
    LeafPage(<<RawCatalogRow(OBJECT_TABLE, 2, 2, fdp, 80, 0, 1, name, <<>>)>>
             \o SubSeq(MSysObjectsColumnRows, 1, IF with_name_column THEN 9 ELSE 8)
             \o (IF with_long_value
                 THEN <<RawCatalogRow(OBJECT_LONG_VALUE, 2, 1, 2, 1, 0, 1, <<76, 86>>, <<>>)>>
                 ELSE <<>>))

\* page 3: another catalog, of table 9 and one column of it; the table row
\* with or without a tagged entry of column 256 that is a separated value
OtherCatalogPage(separated) ==
    LeafPage(<<RawCatalogRow(OBJECT_TABLE, 9, 9, 3, 80, 0, 1, <<100>>,
                             IF separated THEN <<0, 1, 4, 64, 5, 0, 0, 0, 0>> ELSE <<>>),
               RawCatalogRow(OBJECT_COLUMN, 9, 1, 4, 4, FIXED, 1252, <<97>>, <<>>)>>)

BootstrapDatabases ==
    {<<LeafPage(<<>>), LeafPage(<<Foo>>), OtherCatalogPage(separated),
       CatalogPage(name, fdp, with_name_column, with_long_value)>> :
        name \in {MSysObjectsName, <<88>>}, fdp \in {4, 3, 7, 0 - 1},
        with_name_column \in BOOLEAN, with_long_value \in BOOLEAN,
        separated \in BOOLEAN}

NothingRead ==
    [naive_rows |-> <<>>, naive_tables |-> <<>>, mso |-> <<>>, meta_rows |-> <<>>,
     tables |-> <<>>]

InitBootstrap ==
    /\ overflow_checks = FALSE
    /\ file = EmptyFile
    /\ header \in RowHeaders
    /\ tree \in BootstrapDatabases
    /\ call = [op |-> "main", pc |-> "start", reads |-> <<>>]
    /\ ret = NothingRead

\* main.rs lines 41-42
ReadNaiveRows ==
    /\ call.op = "main" /\ call.pc = "start"
    /\ \E naive_rows \in {read_table_from_pages(tree, header, CATALOG_PAGE_NUMBER,
                                                 METADATA_COLUMN_DEFS, None)} :
          /\ call' = [call EXCEPT
                         !.reads = Append(@, CatalogReadOf(CATALOG_PAGE_NUMBER,
                                                           METADATA_COLUMN_DEFS, None)),
                         !.pc = IF IsOk(naive_rows) THEN "naive_rows" ELSE "panicked"]
          /\ ret' = [ret EXCEPT !.naive_rows = IF IsOk(naive_rows) THEN naive_rows.val ELSE @]
    /\ UNCHANGED <<overflow_checks, file, header, tree>>

\* main.rs lines 43-44 and 54-55: collect_tables on the rows read last, with
\* the schema they were read with
CollectCatalogTables ==
    /\ call.op = "main" /\ call.pc \in {"naive_rows", "meta_rows"}
    /\ \E tables \in collect_tables(
                         IF call.pc = "naive_rows" THEN ret.naive_rows ELSE ret.meta_rows,
                         IF call.pc = "naive_rows" THEN METADATA_COLUMN_DEFS
                         ELSE ret.mso[1].columns) :
          IF call.pc = "naive_rows"
          THEN /\ call' = [call EXCEPT !.pc = IF IsOk(tables) THEN "naive_tables"
                                              ELSE "panicked"]
               /\ ret' = [ret EXCEPT !.naive_tables = IF IsOk(tables) THEN tables.val ELSE @]
          ELSE /\ call' = [call EXCEPT !.pc = IF IsOk(tables) THEN "tables" ELSE "panicked"]
               /\ ret' = [ret EXCEPT !.tables = IF IsOk(tables) THEN tables.val ELSE @]
    /\ UNCHANGED <<overflow_checks, file, header, tree>>

\* main.rs lines 47-49
FindMSysObjects ==
    /\ call.op = "main" /\ call.pc = "naive_tables"
    /\ LET mso == find_table(ret.naive_tables, MSysObjectsName)
       IN  /\ call' = [call EXCEPT !.pc = IF mso # <<>> THEN "mso" ELSE "panicked"]
           /\ ret' = [ret EXCEPT !.mso = mso]
    /\ UNCHANGED <<overflow_checks, file, header, tree>>

\* main.rs lines 52-53: the arguments are evaluated, then the table is read
ReadMetaRows ==
    /\ call.op = "main" /\ call.pc = "mso"
    /\ \E mso \in {ret.mso[1]} :
       \E large_value_page_number \in {long_value_page_number(mso)} :
          IF mso.header.fdp_page_number < 0 \/ ~IsOk(large_value_page_number)
          THEN /\ call' = [call EXCEPT !.pc = "panicked"]
               /\ ret' = ret
          ELSE \E meta_rows \in {read_table_from_pages(tree, header,
                                      mso.header.fdp_page_number, mso.columns,
                                      large_value_page_number.val)} :
                  /\ call' = [call EXCEPT
                                 !.reads = Append(@, CatalogReadOf(
                                                        mso.header.fdp_page_number,
                                                        mso.columns,
                                                        large_value_page_number.val)),
                                 !.pc = IF IsOk(meta_rows) THEN "meta_rows"
                                        ELSE "panicked"]
                  /\ ret' = [ret EXCEPT !.meta_rows = IF IsOk(meta_rows) THEN meta_rows.val
                                                      ELSE @]
    /\ UNCHANGED <<overflow_checks, file, header, tree>>

NextBootstrap ==
    \/ ReadNaiveRows
    \/ CollectCatalogTables
    \/ FindMSysObjects
    \/ ReadMetaRows

SpecBootstrap == InitBootstrap /\ [][NextBootstrap]_vars

(***************************************************************************)
(* The catalog bootstrap: which tables it reads, and from what it builds   *)
(* the final catalog.                                                      *)
(***************************************************************************)
\* the long-value page main hands to the second read
LongValuePageOf(table) ==
    IF table.long_value = <<>> THEN None ELSE Some(table.long_value[1].fdp_page_number)

DNT_COLUMN_NAME == <<68, 78, 84, 95, 99, 111, 108>>
PARENT_DNT_COLUMN_NAME == <<80, 68, 78, 84, 95, 99, 111, 108>>
OBJECT_CLASS_COLUMN_NAME == <<65, 84, 84, 99, 48>>
TOP_OBJECT_NAME_COLUMN_NAME == <<65, 84, 84, 109, 53, 56, 57, 56, 50, 53>>
BOOT_OBJECT_NAME == <<66, 111, 111, 116>>
ROOT_OBJECT_DNT == 2
SCHEMA_ROOT_OBJECT_CLASS == 196617

Long(n) == Data("Long", I32Bytes(n))
LongText(str) == Data("LongText", str)

\* Value::to_data_vec: the data of a value, one for Simple and Complex
to_data_vec(value) ==
    IF value.kind = "Multiple" THEN value.values ELSE <<value.values[1]>>

\* lines 233-237
column_contains_value(row, column_index, expected_value) ==
    /\ column_index \in DOMAIN row
    /\ \E i \in DOMAIN to_data_vec(row[column_index]) :
          to_data_vec(row[column_index])[i] = expected_value

\* lines 248-253: the DNT of a Simple Long, a panic for any other value
extract_dnt(dnt_value) ==
    IF dnt_value.kind = "Simple" /\ dnt_value.values[1].t = "Long"
    THEN Ok(i32_from_le_bytes(dnt_value.values[1].v))
    ELSE Panic

\* data_table.columns.iter().find(|c| c.name == name): the first column of
\* the name, none if there is none
find_column(columns, name) ==
    LET named == {k \in 1..Len(columns) : columns[k].name = name}
    IN  IF named = {} THEN <<>>
        ELSE <<columns[CHOOSE k \in named : \A j \in named : k <= j]>>

\* the first of the positions, none if there is none
first_position(positions) ==
    IF positions = {} THEN <<>>
    ELSE <<CHOOSE k \in positions : \A j \in positions : k <= j>>

\* lines 107-112: the first row under the root object that is named Boot
find_boot_entry(data_rows, parent_dnt_column_index, top_name_column_index) ==
    first_position({k \in 1..Len(data_rows) :
        /\ column_contains_value(data_rows[k], parent_dnt_column_index,
                                 Long(ROOT_OBJECT_DNT))
        /\ column_contains_value(data_rows[k], top_name_column_index,
                                 LongText(BOOT_OBJECT_NAME))})

\* lines 113-119: Some(DNT of Boot), None without a Boot row, a panic for a
\* Boot row without a DNT or with one that is no Simple Long
boot_dnt_of(data_rows, boot_entry_opt, dnt_column_index) ==
    IF boot_entry_opt = <<>> THEN Ok(None)
    ELSE IF dnt_column_index \notin DOMAIN data_rows[boot_entry_opt[1]] THEN Panic
    ELSE IF ~IsOk(extract_dnt(data_rows[boot_entry_opt[1]][dnt_column_index])) THEN Panic
    ELSE Ok(Some(extract_dnt(data_rows[boot_entry_opt[1]][dnt_column_index]).val))

\* lines 121-129: the first row of the schema-root class whose parent is not
\* Boot; a panic if there is none
schema_root_of(data_rows, boot_dnt_opt, parent_dnt_column_index, object_class_column_index) ==
    IF ~IsOk(boot_dnt_opt) THEN Panic
    ELSE IF first_position({k \in 1..Len(data_rows) :
                /\ (boot_dnt_opt.val.some =>
                       ~column_contains_value(data_rows[k], parent_dnt_column_index,
                                              Long(boot_dnt_opt.val.v)))
                /\ column_contains_value(data_rows[k], object_class_column_index,
                                         Long(SCHEMA_ROOT_OBJECT_CLASS))}) = <<>>
    THEN Panic
    ELSE Ok(data_rows[first_position({k \in 1..Len(data_rows) :
                /\ (boot_dnt_opt.val.some =>
                       ~column_contains_value(data_rows[k], parent_dnt_column_index,
                                              Long(boot_dnt_opt.val.v)))
                /\ column_contains_value(data_rows[k], object_class_column_index,
                                         Long(SCHEMA_ROOT_OBJECT_CLASS))})[1]])

\* lines 88-130
find_schema_root(data_table, data_rows) ==
    LET dnt_column == find_column(data_table.columns, DNT_COLUMN_NAME)
        parent_dnt_column == find_column(data_table.columns, PARENT_DNT_COLUMN_NAME)
        object_class_column == find_column(data_table.columns, OBJECT_CLASS_COLUMN_NAME)
        top_name_column == find_column(data_table.columns, TOP_OBJECT_NAME_COLUMN_NAME)
    IN  IF dnt_column = <<>> \/ parent_dnt_column = <<>> \/ object_class_column = <<>>
           \/ top_name_column = <<>>
        THEN Panic
        ELSE schema_root_of(data_rows,
                 boot_dnt_of(data_rows,
                     find_boot_entry(data_rows, parent_dnt_column[1].column_id,
                                     top_name_column[1].column_id),
                     dnt_column[1].column_id),
                 parent_dnt_column[1].column_id, object_class_column[1].column_id)

(***************************************************************************)
(* Schema specification: find_schema_root on up to MaxDataRows rows of a   *)
(* datatable, in every order: Boot, rows below it, schema roots in and     *)
(* outside its subtree.                                                    *)
(***************************************************************************)
MaxDataRows == 4

DataColumn(column_id, column_type, name) ==
    ColumnDef(7, column_id, column_type, 4, 0, 1200, <<>>, <<>>, name)

\* the columns find_schema_root looks for, among others
DataTableColumns ==
    <<DataColumn(1, "Long", DNT_COLUMN_NAME),
      DataColumn(2, "Long", PARENT_DNT_COLUMN_NAME),
      DataColumn(3, "Long", <<99, 110, 116>>),
      DataColumn(256, "Long", OBJECT_CLASS_COLUMN_NAME),
      DataColumn(257, "LongText", TOP_OBJECT_NAME_COLUMN_NAME)>>

\* the datatable, and the datatable without one of the columns
DataTables ==
    {[columns |-> DataTableColumns]} \cup
    {[columns |-> SelectSeq(DataTableColumns, LAMBDA c : c.column_id # id)] :
        id \in {1, 256}}

\* a row of DNT dnt below the row of DNT pdnt
DataRow(dnt, pdnt, classes, name) ==
    (1 :> Simple(Long(dnt))) @@ (2 :> Simple(Long(pdnt))) @@
    (IF classes = <<>> THEN <<>>
     ELSE IF Len(classes) = 1 THEN (256 :> Simple(Long(classes[1])))
     ELSE (256 :> Multiple([i \in DOMAIN classes |-> Long(classes[i])], 0))) @@
    (IF name = <<>> THEN <<>> ELSE (257 :> Complex(LongText(name), 0)))

\* Boot (DNT 3) under the root object; a row below Boot; schema roots that
\* are a child of Boot, a grandchild of Boot and a child of the root
\* object; a row of another class; a Boot row without a DNT
DataRows ==
    {DataRow(3, ROOT_OBJECT_DNT, <<>>, BOOT_OBJECT_NAME),
     DataRow(4, 3, <<5>>, <<120>>),
     DataRow(5, 3, <<SCHEMA_ROOT_OBJECT_CLASS>>, <<>>),
     DataRow(6, 4, <<SCHEMA_ROOT_OBJECT_CLASS>>, <<>>),
     DataRow(7, ROOT_OBJECT_DNT, <<1, SCHEMA_ROOT_OBJECT_CLASS>>, <<>>),
     DataRow(8, ROOT_OBJECT_DNT, <<5>>, <<66>>),
     (2 :> Simple(Long(ROOT_OBJECT_DNT))) @@ (257 :> Simple(LongText(BOOT_OBJECT_NAME)))}

DataRowSeqs ==
    UNION {{q \in [1..n -> DataRows] : \A i, j \in 1..n : i # j => q[i] # q[j]} :
              n \in 0..MaxDataRows}

InitSchema ==
    /\ overflow_checks = FALSE
    /\ file = EmptyFile
    /\ header = NoHeader
    /\ tree = NoTree
    /\ call = NoCall
    /\ ret = NoRet

\* addump main.rs line 64
FindSchemaRoot ==
    /\ call.op = "none"
    /\ \E data_table \in DataTables, data_rows \in DataRowSeqs :
          /\ call' = [op |-> "find_schema_root", data_table |-> data_table,
                      data_rows |-> data_rows]
          /\ ret' = find_schema_root(data_table, data_rows)
    /\ UNCHANGED <<overflow_checks, file, header, tree>>

NextSchema == FindSchemaRoot

SpecSchema == InitSchema /\ [][NextSchema]_vars

\* the rows of the schema-root class
SchemaRootRows(data_rows) ==
    {k \in 1..Len(data_rows) :
        column_contains_value(data_rows[k], 256, Long(SCHEMA_ROOT_OBJECT_CLASS))}

\* the DNTs of the rows named Boot under the root object
BootDnts(data_rows) ==
    {i32_from_le_bytes(data_rows[k][1].values[1].v) : k \in
        {j \in 1..Len(data_rows) :
            /\ 1 \in DOMAIN data_rows[j]
            /\ column_contains_value(data_rows[j], 2, Long(ROOT_OBJECT_DNT))
            /\ column_contains_value(data_rows[j], 257, LongText(BOOT_OBJECT_NAME))}}

RECURSIVE Descends(_, _, _, _)
\* row is below a row of a DNT in dnts, at most depth parents up
Descends(row, dnts, data_rows, depth) ==
    /\ depth > 0
    /\ \/ \E d \in dnts : column_contains_value(row, 2, Long(d))
       \/ \E k \in 1..Len(data_rows) :
             /\ 1 \in DOMAIN data_rows[k]
             /\ column_contains_value(row, 2, data_rows[k][1].values[1])
             /\ Descends(data_rows[k], dnts, data_rows, depth - 1)

InBootSubtree(row, data_rows) ==
    Descends(row, BootDnts(data_rows), data_rows, Len(data_rows))

\* C18: for a datatable with at most two rows of the schema-root class,
\* the row find_schema_root returns is a schema root that is not parented,
\* directly or transitively, by the row named Boot under the root object:
\* it never lies in Boot's subtree.
C18_SchemaRootOutsideBootSubtree ==
    (/\ call.op = "find_schema_root"
     /\ Cardinality(SchemaRootRows(call.data_rows)) <= 2
     /\ IsOk(ret)) =>
        /\ ret.val \in {call.data_rows[k] : k \in SchemaRootRows(call.data_rows)}
        /\ ~InBootSubtree(ret.val, call.data_rows)

\* what the code keeps of C18: the row returned is a schema root that is no
\* child of Boot
C18_SchemaRootNoChildOfBoot ==
    (call.op = "find_schema_root" /\ IsOk(ret)) =>
        /\ ret.val \in {call.data_rows[k] : k \in SchemaRootRows(call.data_rows)}
        /\ \A d \in BootDnts(call.data_rows) : ~column_contains_value(ret.val, 2, Long(d))

\* Boot, a row below Boot, the schema root below that row and the schema
\* root under the root object, in this order: the grandchild of Boot is
\* returned
C18_GrandchildOfBootReturned ==
    /\ call.op = "find_schema_root"
    /\ call.data_rows = <<DataRow(3, ROOT_OBJECT_DNT, <<>>, BOOT_OBJECT_NAME),
                          DataRow(4, 3, <<5>>, <<120>>),
                          DataRow(6, 4, <<SCHEMA_ROOT_OBJECT_CLASS>>, <<>>),
                          DataRow(7, ROOT_OBJECT_DNT, <<1, SCHEMA_ROOT_OBJECT_CLASS>>, <<>>)>>
    /\ ret = Ok(DataRow(6, 4, <<SCHEMA_ROOT_OBJECT_CLASS>>, <<>>))

(***************************************************************************)
(* page.rs: read_page_entry.  data_for_tag is what read_data_for_tag       *)
(* returned: the payload of the tag, or an Io error.                       *)
(***************************************************************************)
COMPRESSED == 4

\* lines 496-500: on large pages the top three bits of the second byte are
\* the tag's flags and are stripped
strip_flags_in_data(data, flags_in_data) ==
    IF Len(data) >= 2 /\ flags_in_data THEN [data EXCEPT ![2] = @ % 32] ELSE data

\* read_u32 at pos of the cursor over data
read_u32_at(data, pos) ==
    IF Len(data) < pos + 4 THEN Err("Io") ELSE Ok(LEToNat(Slice(data, pos, pos + 4)))

\* lines 512-528: the common key part and the position after it
read_common(data, key_start, compressed) ==
    IF Len(data) < key_start + 2 THEN Err("Io")
    ELSE IF Len(data) < key_start + 2 + U16At(data, key_start) THEN Err("Io")
    ELSE Ok([common |->
                [common_page_key_size |-> IF compressed THEN <<U16At(data, 0)>> ELSE <<>>,
                 local_page_key |-> Slice(data, key_start + 2,
                                          key_start + 2 + U16At(data, key_start))],
             pos |-> key_start + 2 + U16At(data, key_start)])

BranchPageEntry(kind, common, child_page_number) ==
    IF ~IsOk(child_page_number) THEN child_page_number
    ELSE Ok([kind |-> kind, common |-> common, child_page_number |-> child_page_number.val])

SpaceLeafPageEntry(common, number_of_pages) ==
    IF ~IsOk(number_of_pages) THEN number_of_pages
    ELSE Ok([kind |-> "SpaceLeaf", common |-> common,
             number_of_pages |-> number_of_pages.val])

branch_entry_kind_index_first(page_flags) ==
    IF Has(page_flags, INDEX_PAGE) THEN "IndexBranch"
    ELSE IF Has(page_flags, SPACE_TREE_PAGE) THEN "SpaceBranch"
    ELSE "Branch"

\* lines 544-550
branch_entry_kind(page_flags) ==
    IF Has(page_flags, SPACE_TREE_PAGE) THEN "SpaceBranch"
    ELSE IF Has(page_flags, INDEX_PAGE) THEN "IndexBranch"
    ELSE "Branch"

\* lines 530-571: "what sort of entry is this?"
entry_of_sort(c, data, page_flags) ==
    IF ~IsOk(c) THEN c
    ELSE IF Has(page_flags, ROOT_PAGE)
    THEN BranchPageEntry("Root", c.val.common, read_u32_at(data, c.val.pos))
    ELSE IF Has(page_flags, BRANCH_PAGE)
    THEN BranchPageEntry(branch_entry_kind(page_flags), c.val.common,
                         read_u32_at(data, c.val.pos))
    ELSE IF Has(page_flags, LEAF_PAGE)
    THEN IF Has(page_flags, SPACE_TREE_PAGE)
         THEN SpaceLeafPageEntry(c.val.common, read_u32_at(data, c.val.pos))
         ELSE IF Has(page_flags, INDEX_PAGE) THEN Panic
         ELSE Ok([kind |-> "Leaf", common |-> c.val.common,
                  entry_data |-> Slice(data, c.val.pos, Len(data))])
    ELSE Err("UnknownPageType")

\* lines 502-528
entry_of_data(data, page_flags, tag_flags) ==
    IF Has(page_flags, LEAF_PAGE) /\ Has(page_flags, INDEX_PAGE)
    THEN Ok([kind |-> "IndexLeaf", record_page_key |-> data])
    ELSE IF Has(tag_flags, COMPRESSED) /\ Len(data) < 2 THEN Err("Io")
    ELSE entry_of_sort(read_common(data, IF Has(tag_flags, COMPRESSED) THEN 2 ELSE 0,
                                   Has(tag_flags, COMPRESSED)),
                       data, page_flags)

\* lines 493-572
read_page_entry(data_for_tag, page_flags, tag_flags, flags_in_data) ==
    IF ~IsOk(data_for_tag) THEN data_for_tag
    ELSE entry_of_data(strip_flags_in_data(data_for_tag.val, flags_in_data),
                       page_flags, tag_flags)

(***************************************************************************)
(* Entry specification: read_page_entry for every combination of the five  *)
(* page flags it tests, tags compressed and not, small and large pages,    *)
(* payloads that hold the fields and payloads too short for them.          *)
(***************************************************************************)
EntryPageFlags ==
    {r + l + b + s + i : r \in {0, ROOT_PAGE}, l \in {0, LEAF_PAGE}, b \in {0, BRANCH_PAGE},
                         s \in {0, SPACE_TREE_PAGE}, i \in {0, INDEX_PAGE}}

EntryTagFlags == {0, 1, COMPRESSED}

\* nothing; one byte; a key size and nothing else; a key and nothing else;
\* a key and four bytes; the same with the top bits of the second byte set;
\* a common key size, a key and four bytes; a key size beyond the payload
EntryPayloads ==
    {<<>>, <<5>>, <<0, 0>>, <<1, 0, 7>>, <<1, 0, 7, 9, 0, 0, 0>>,
     <<1, 224, 7, 9, 0, 0, 0>>, <<2, 0, 1, 0, 7, 9, 0, 0, 0>>, <<3, 0, 1>>}

InitEntry ==
    /\ overflow_checks = FALSE
    /\ file = EmptyFile
    /\ header = NoHeader
    /\ tree = NoTree
    /\ call = NoCall
    /\ ret = NoRet

ReadPageEntry ==
    /\ call.op = "none"
    /\ \E data \in {Err("Io")} \cup {Ok(d) : d \in EntryPayloads},
          page_flags \in EntryPageFlags, tag_flags \in EntryTagFlags,
          flags_in_data \in BOOLEAN :
          /\ call' = [op |-> "read_page_entry", data |-> data, page_flags |-> page_flags,
                      tag_flags |-> tag_flags, flags_in_data |-> flags_in_data]
          /\ ret' = read_page_entry(data, page_flags, tag_flags, flags_in_data)
    /\ UNCHANGED <<overflow_checks, file, header, tree>>

NextEntry == ReadPageEntry

SpecEntry == InitEntry /\ [][NextEntry]_vars

\* the result the page flags call for, in the order of precedence
ExpectedEntry(page_flags) ==
    IF Has(page_flags, LEAF_PAGE) /\ Has(page_flags, INDEX_PAGE) THEN "IndexLeaf"
    ELSE IF Has(page_flags, ROOT_PAGE) THEN "Root"
    ELSE IF Has(page_flags, BRANCH_PAGE)
    THEN IF Has(page_flags, SPACE_TREE_PAGE) THEN "SpaceBranch"
         ELSE IF Has(page_flags, INDEX_PAGE) THEN "IndexBranch"
         ELSE "Branch"
    ELSE IF Has(page_flags, LEAF_PAGE)
    THEN IF Has(page_flags, SPACE_TREE_PAGE) THEN "SpaceLeaf" ELSE "Leaf"
    ELSE "UnknownPageType"

\* the variant or the error returned
EntryReturned(r) ==
    IF IsOk(r) THEN r.val.kind ELSE IF r.kind = "err" THEN r.err ELSE "panic"

\* the bytes the entry the flags call for takes of the payload: the common
\* key size of a compressed tag, the key size, the key, and the four bytes
\* of Root, the branches and SpaceLeaf
BytesWanted(data, page_flags, tag_flags) ==
    LET key_start == IF Has(tag_flags, COMPRESSED) THEN 2 ELSE 0
        key_end == IF Len(data) < key_start + 2 THEN key_start + 2
                   ELSE key_start + 2 + U16At(data, key_start)
    IN  IF ExpectedEntry(page_flags) \in {"Root", "SpaceBranch", "IndexBranch", "Branch",
                                          "SpaceLeaf"}
        THEN key_end + 4 ELSE key_end

\* C20: the result of read_page_entry is a total function of the page
\* flags: IndexLeaf for LEAF and INDEX, otherwise Root for ROOT, otherwise
\* SpaceBranch, IndexBranch or Branch for BRANCH, otherwise SpaceLeaf or
\* Leaf for LEAF, otherwise the error UnknownPageType.
C20_EntryIsFunctionOfPageFlags ==
    (call.op = "read_page_entry" /\ IsOk(call.data)) =>
        EntryReturned(ret) = ExpectedEntry(call.page_flags)

\* C20 as amended: for LEAF and INDEX the result is IndexLeaf with the
\* whole payload (less the flag bits of a large page) as its key, whatever
\* the payload; for other flags the result is the entry the flags call for
\* if the payload holds the bytes that entry takes, and an Io error if it
\* does not, also in place of UnknownPageType; the unreachable!() is never
\* reached.
C20_EntryByPageFlagsUnlessShort ==
    call.op = "read_page_entry" =>
        /\ ret.kind # "panic"
        /\ IF ~IsOk(call.data) THEN ret = call.data
           ELSE LET data == strip_flags_in_data(call.data.val, call.flags_in_data)
                IN  IF ExpectedEntry(call.page_flags) = "IndexLeaf"
                    THEN ret = Ok([kind |-> "IndexLeaf", record_page_key |-> data])
                    ELSE IF Len(data) < BytesWanted(data, call.page_flags, call.tag_flags)
                    THEN ret = Err("Io")
                    ELSE EntryReturned(ret) = ExpectedEntry(call.page_flags)

\* a page with none of the flags and an empty payload: an Io error, not
\* UnknownPageType
C20_ShortPayloadIsIoError ==
    /\ call.op = "read_page_entry"
    /\ call.data = Ok(<<>>)
    /\ ExpectedEntry(call.page_flags) = "UnknownPageType"
    /\ ret = Err("Io")

====
